---- MODULE Spec2Model ----
(***************************************************************************)
(* The sqlite3 DB-API layer exercised by Lib/test/test_sqlite3/test_dbapi. *)
(* One connection to a fresh in-memory database with one table `test`,     *)
(* its cursors, its statement cache and the engine's transaction state.    *)
(* Every operation is one atomic step called by some thread; the exception *)
(* it raises (or "ok") and the value it returns are recorded in `last`.    *)
(***************************************************************************)
EXTENDS Integers, Sequences, FiniteSets, TLC

\* ---------------------------------------------------------------- bounds
NumCursors == 2
MaxRows == 2
MaxGen == 2
MaxLen == 6
MaxParams == 2
MaxChanges == 4

\* ------------------------------------------------------------- constants
\* test(id integer primary key, name text, unique_name text unique)
BaseCols == 3

\* The connection under test and another connection of the same thread, of
\* which only the limits are kept.
Main == 1
Conns == {Main, 2}

\* Limit categories: the engine's are SQL_LENGTH and COLUMN here; the number
\* of test_connection_bad_limit_category is none of them.
Categories == {"SQL_LENGTH", "COLUMN"}
BadCategory == "1111"
\* Every limit starts at its upper bound.
DefaultLimit == MaxLen
PlainLimcalls == {<<Main, "SQL_LENGTH", DefaultLimit>>}

Threads == {"main", "other"}
Creator == "main"
Cursors == 1..NumCursors
MaxId == MaxRows + 1

IsolationLevels == {"", "DEFERRED", "IMMEDIATE", "EXCLUSIVE", "None"}

DmlKinds ==
    {"insert", "insert_or_rollback", "insert_or_abort", "insert_or_fail",
     "insert_or_ignore", "insert_or_replace", "update", "delete"}
DdlKinds == {"create", "alter"}
AllKinds == DmlKinds \cup DdlKinds \cup {"select", "select_name", "begin"}
\* The statements that return rows: they stay bound to their cursor between
\* execute and the last fetch, every other statement is stepped to
\* completion and reset inside execute.
ResultKinds == {"select", "select_name"}

\* The connection operations that install a callback or only return the
\* connection: they change nothing this model keeps.
CheckedOps ==
    {"create_function", "create_aggregate", "set_authorizer",
     "set_progress_handler", "set_trace_callback", "create_collation",
     "call", "enter"}

VARIABLES
    isolation_level,    \* connect(isolation_level=...), "None" is autocommit
    check_same_thread,  \* connect(check_same_thread=...)
    kinds,              \* the statements the application uses
    callers,            \* the threads the application calls from
    ops,                \* the callback operations the application uses
    limcalls,           \* the <<connection, category, value>> triples the
                        \* application calls getlimit and setlimit with
    binds,              \* the placeholders and parameters the application
                        \* calls execute with
    ncur,               \* how many cursors the application opens
    sizes,              \* the values the application assigns to arraysize
    reads,              \* the attributes the application reads, of
                        \* rowcount, lastrowid and total_changes: the others
                        \* are outputs nobody looks at and are not represented
    closed,             \* Connection closed flag
    db,                 \* engine: working database [cols, rows]
    committed,          \* engine: database as of the last commit
    in_tx,              \* engine: a transaction is open (Connection.in_transaction)
    last_insert_rowid,  \* engine: rowid of the connection's latest insert
    total_changes,      \* engine: rows changed since the connection opened
                        \* (Connection.total_changes), kept when it is read
    schema_gen,         \* connection's schema-generation counter
    cache,              \* statement cache: row-returning SQL text -> entry
                        \* or NoStmt
    cur,                \* cursors: id -> cursor record
    owed,               \* per cursor: rows of its own execution not yet delivered
    got,                \* per cursor: rows its fetches returned since its execute
    limits,             \* connection -> limit category -> limit
    locks,              \* engine: connection -> its lock on the database file
    initialized,        \* the object made by Connection.__new__: its __init__
                        \* has run
    since_failure,      \* what the other connection has done since a commit
                        \* at the end of a with block last failed
    ddl_since,          \* "yes" when DDL has executed since the SELECT text
                        \* was last executed, "unseen" before its first use
    last                \* the last call: operation, caller, outcome, value

vars == <<isolation_level, check_same_thread, kinds, callers, ops, limcalls,
          binds, ncur, sizes, reads, closed, db, committed, in_tx,
          last_insert_rowid, schema_gen, cache, cur, owed, got, limits,
          locks, initialized, since_failure, total_changes, ddl_since, last>>

\* What connect() and the application fix once and for all.
opts == <<isolation_level, check_same_thread, kinds, callers, ops, limcalls,
          binds, ncur, sizes, reads>>
conf == <<opts, ddl_since>>
\* What the cursor operations, commit, rollback and close leave alone.
aside == <<limits, locks, initialized, since_failure, total_changes>>

\* ------------------------------------------------------------ engine data
Row(i, n, u) == [id |-> i, name |-> n, u |-> u]
EmptyDb == [cols |-> 0, rows |-> <<>>]

RECURSIVE MaxIdOf(_)
MaxIdOf(rows) ==
    IF rows = <<>> THEN 0
    ELSE LET m == MaxIdOf(Tail(rows)) IN
         IF Head(rows).id > m THEN Head(rows).id ELSE m

NextId(rows) == MaxIdOf(rows) + 1

HasUnique(rows, u) == \E i \in 1..Len(rows) : rows[i].u = u

RECURSIVE Without(_, _)
Without(rows, u) ==
    IF rows = <<>> THEN <<>>
    ELSE IF Head(rows).u = u THEN Without(Tail(rows), u)
    ELSE <<Head(rows)>> \o Without(Tail(rows), u)

Renamed(rows) == [i \in 1..Len(rows) |-> [rows[i] EXCEPT !.name = "bar"]]

\* ------------------------------------------------------- engine behaviour
IsDml(k) == k \in DmlKinds
IsDdl(k) == k \in DdlKinds

\* Result of sqlite3_prepare: a statement naming a missing table, or creating
\* a table that exists, is rejected.
PrepareError(k, d) ==
    IF k = "begin" THEN "ok"
    ELSE IF k = "create" THEN (IF d.cols # 0 THEN "OperationalError" ELSE "ok")
    ELSE IF d.cols = 0 THEN "OperationalError" ELSE "ok"

\* The outcome of stepping one statement: the database and transaction flag
\* afterwards, the exception, the result rows, the number of rows changed
\* (sqlite3_changes) and the rowid inserted (0 when no row was inserted).
Outcome(d, tx, exc, rows, n, ins) ==
    [db |-> d, tx |-> tx, exc |-> exc, rows |-> rows, n |-> n, ins |-> ins]

Inserted(d, name, u) ==
    [d EXCEPT !.rows = Append(d.rows, Row(NextId(d.rows), name, u))]

OnConflictStatementOnly(k, d, tx, com) ==
    IF k \in {"insert_or_ignore", "insert_or_replace"}
    THEN Outcome(d, tx, "ok", <<>>, 0, 0)
    ELSE Outcome(d, tx, "IntegrityError", <<>>, 0, 0)

OnConflictAlwaysRollback(k, d, tx, com) ==
    IF k \in {"insert_or_ignore", "insert_or_replace"}
    THEN Outcome(d, tx, "ok", <<>>, 0, 0)
    ELSE Outcome(IF tx THEN com ELSE d, FALSE, "IntegrityError", <<>>, 0, 0)

OnConflictIgnoreInserts(k, d, tx, com) ==
    IF k = "insert_or_ignore"
    THEN Outcome(Inserted(d, "NULL", "foo"), tx, "ok", <<>>, 1,
                 NextId(d.rows))
    ELSE Outcome(d, tx, "IntegrityError", <<>>, 0, 0)

\* What the conflict-resolution clause of an INSERT does when the row's
\* unique_name is already in the table.  tx is the transaction flag and com
\* the committed database when the statement runs.
OnConflict(k, d, tx, com) ==
    IF k = "insert_or_ignore"
    THEN Outcome(d, tx, "ok", <<>>, 0, 0)
    ELSE IF k = "insert_or_replace"
    THEN Outcome([d EXCEPT !.rows = Append(Without(d.rows, "foo"),
                                           Row(NextId(d.rows), "NULL", "foo"))],
                 tx, "ok", <<>>, 1, NextId(d.rows))
    ELSE IF k = "insert_or_rollback"
    THEN Outcome(IF tx THEN com ELSE d, FALSE, "IntegrityError", <<>>, 0, 0)
    ELSE Outcome(d, tx, "IntegrityError", <<>>, 0, 0)

\* sqlite3_step to completion of one prepared statement.
Step(k, d, tx, com) ==
    CASE k = "create" ->
            Outcome([d EXCEPT !.cols = BaseCols], tx, "ok", <<>>, 0, 0)
      [] k = "alter"  ->
            Outcome([d EXCEPT !.cols = d.cols + 1], tx, "ok", <<>>, 0, 0)
      [] k = "insert" ->
            Outcome(Inserted(d, "abort_test", "NULL"), tx, "ok", <<>>, 1,
                    NextId(d.rows))
      [] k = "update" ->
            Outcome([d EXCEPT !.rows = Renamed(d.rows)], tx, "ok", <<>>,
                    Len(d.rows), 0)
      [] k = "delete" ->
            Outcome([d EXCEPT !.rows = <<>>], tx, "ok", <<>>, Len(d.rows), 0)
      [] k \in {"select", "select_name"} ->
            Outcome(d, tx, "ok", d.rows, 0, 0)
      [] k = "begin"  ->
            IF tx THEN Outcome(d, tx, "OperationalError", <<>>, 0, 0)
            ELSE Outcome(d, TRUE, "ok", <<>>, 0, 0)
      [] OTHER ->
            IF HasUnique(d.rows, "foo") THEN OnConflict(k, d, tx, com)
            ELSE Outcome(Inserted(d, "NULL", "foo"), tx, "ok", <<>>, 1,
                         NextId(d.rows))

\* ---------------------------------------------------------- result codes
\* The engine's error codes.  A primary code is the position of its name in
\* Primaries; an extended code adds FamilySize times the position of its
\* detail in Details.  The names are those test_module_constants lists; the
\* engine's own numbering of them is not part of this repository.
Primaries ==
    <<"ERROR", "INTERNAL", "PERM", "ABORT", "BUSY", "LOCKED", "NOMEM",
      "READONLY", "INTERRUPT", "IOERR", "CORRUPT", "NOTFOUND", "FULL",
      "CANTOPEN", "PROTOCOL", "EMPTY", "SCHEMA", "TOOBIG", "CONSTRAINT",
      "MISMATCH", "MISUSE", "NOLFS", "AUTH", "FORMAT", "RANGE", "NOTADB",
      "NOTICE", "WARNING">>

FamilySize == 256

Details ==
    [f \in {Primaries[i] : i \in 1..Len(Primaries)} |->
        CASE f = "ABORT" -> <<"ROLLBACK">>
          [] f = "AUTH" -> <<"USER">>
          [] f = "BUSY" -> <<"RECOVERY", "SNAPSHOT", "TIMEOUT">>
          [] f = "CANTOPEN" ->
                <<"FULLPATH", "ISDIR", "NOTEMPDIR", "CONVPATH", "DIRTYWAL",
                  "SYMLINK">>
          [] f = "CONSTRAINT" ->
                <<"CHECK", "COMMITHOOK", "FOREIGNKEY", "FUNCTION", "NOTNULL",
                  "PRIMARYKEY", "TRIGGER", "UNIQUE", "VTAB", "ROWID",
                  "PINNED">>
          [] f = "CORRUPT" -> <<"VTAB", "SEQUENCE", "INDEX">>
          [] f = "ERROR" -> <<"MISSING_COLLSEQ", "RETRY", "SNAPSHOT">>
          [] f = "IOERR" ->
                <<"ACCESS", "BLOCKED", "CHECKRESERVEDLOCK", "CLOSE", "DELETE",
                  "DELETE_NOENT", "DIR_CLOSE", "DIR_FSYNC", "FSTAT", "FSYNC",
                  "LOCK", "NOMEM", "RDLOCK", "READ", "SEEK", "SHMLOCK",
                  "SHMMAP", "SHMOPEN", "SHMSIZE", "SHORT_READ", "TRUNCATE",
                  "UNLOCK", "WRITE", "MMAP", "GETTEMPPATH", "CONVPATH",
                  "VNODE", "AUTH", "BEGIN_ATOMIC", "COMMIT_ATOMIC",
                  "ROLLBACK_ATOMIC", "DATA", "CORRUPTFS">>
          [] f = "LOCKED" -> <<"SHAREDCACHE", "VTAB">>
          [] f = "NOTICE" -> <<"RECOVER_ROLLBACK", "RECOVER_WAL">>
          [] f = "READONLY" ->
                <<"CANTLOCK", "RECOVERY", "ROLLBACK", "DBMOVED", "CANTINIT",
                  "DIRECTORY">>
          [] f = "WARNING" -> <<"AUTOINDEX">>
          [] OTHER -> <<>>]

\* The primary code an error code belongs to, and its detail number.
Family(code) == code % FamilySize
Detail(code) == code \div FamilySize

ResultCodes ==
    UNION {{p + FamilySize * d : d \in 0..Len(Details[Primaries[p]])} :
              p \in 1..Len(Primaries)}

\* SQLITE_<FAMILY>
FamilyName(p) == <<"SQLITE", Primaries[p]>>

ErrorNameOfDetailOnly(code) ==
    IF Detail(code) = 0 THEN FamilyName(Family(code))
    ELSE <<"SQLITE", Details[Primaries[Family(code)]][Detail(code)]>>

\* The symbolic name of an error code: SQLITE_<FAMILY>[_<DETAIL>].
ErrorName(code) ==
    IF Detail(code) = 0 THEN FamilyName(Family(code))
    ELSE FamilyName(Family(code))
            \o <<Details[Primaries[Family(code)]][Detail(code)]>>

\* The exception class of each primary code.
ClassOf(p) ==
    LET f == Primaries[p] IN
    IF f \in {"CONSTRAINT", "MISMATCH"} THEN "IntegrityError"
    ELSE IF f = "MISUSE" THEN "ProgrammingError"
    ELSE IF f \in {"INTERNAL", "NOTFOUND"} THEN "InternalError"
    ELSE IF f = "NOLFS" THEN "NotSupportedError"
    ELSE IF f \in {"TOOBIG", "RANGE"} THEN "DataError"
    ELSE IF f \in {"ERROR", "PERM", "ABORT", "BUSY", "LOCKED", "NOMEM",
                   "READONLY", "INTERRUPT", "IOERR", "FULL", "CANTOPEN",
                   "PROTOCOL", "EMPTY", "SCHEMA"}
    THEN "OperationalError"
    ELSE "DatabaseError"

\* The class each exception class derives from.
Parent(cls) ==
    IF cls \in {"Warning", "Error"} THEN "Exception"
    ELSE IF cls \in {"InterfaceError", "DatabaseError"} THEN "Error"
    ELSE "DatabaseError"

Messages == {"constraint failed", "unable to open database file"}

RECURSIVE IsSubclass(_, _)
IsSubclass(cls, base) ==
    IF cls = base THEN TRUE
    ELSE IF cls = "Exception" THEN FALSE
    ELSE IsSubclass(Parent(cls), base)

IsPrefix(p, q) == Len(p) <= Len(q) /\ SubSeq(q, 1, Len(p)) = p

\* ---------------------------------------------------------- the DB-API layer
NoStmt == [gen |-> -1, ncols |-> 0, rows |-> <<>>]
\* description -1, rowcount -1 and lastrowid -1 stand for None / unknown.
DefaultArraysize == 1
NoCursor == [status |-> "none", stmt |-> "none", sql |-> "none",
             rows |-> <<>>, description |-> -1, rowcount |-> -1,
             lastrowid |-> -1, arraysize |-> DefaultArraysize]
NoValue == <<>>

\* The placeholders of a statement, in order: "?" for a positional one, its
\* name for a named one.
Placeholders ==
    {[i \in 1..n |-> "?"] : n \in 0..MaxParams}
        \cup {<<"name">>, <<"name", "id">>}

\* What the caller passes as parameters: a sequence of some length, whose
\* __len__ may raise; a mapping with some keys, which may supply missing
\* keys itself (__missing__); or an object that is neither.
Params(kind, len, keys, missing, raises) ==
    [kind |-> kind, len |-> len, keys |-> keys, missing |-> missing,
     raises |-> raises]
SequenceOf(n) == Params("sequence", n, {}, FALSE, "none")
BadLen == Params("sequence", 0, {}, FALSE, "ZeroDivisionError")
MappingOf(keys, missing) == Params("mapping", 0, keys, missing, "none")
Scalar == Params("scalar", 0, {}, FALSE, "none")
\* execute(sql): the parameters default to the empty sequence.
NoParams == SequenceOf(0)
PlainBind == [ph |-> <<>>, params |-> NoParams]

Sequences == {SequenceOf(n) : n \in 0..(MaxParams + 1)}
Mappings ==
    {MappingOf(K, FALSE) : K \in SUBSET {"name", "id", "extra"}}
        \cup {MappingOf({}, TRUE)}
Bind(ph, p) == [ph |-> ph, params |-> p]

BindErrorMasked(ph, p) ==
    IF p.kind = "scalar" THEN "ValueError"
    ELSE IF p.kind = "sequence"
    THEN IF p.raises # "none" \/ p.len # Len(ph) THEN "ProgrammingError"
         ELSE "ok"
    ELSE IF \E i \in 1..Len(ph) : ph[i] = "?" THEN "ProgrammingError"
    ELSE IF \E i \in 1..Len(ph) : ph[i] \notin p.keys /\ ~p.missing
    THEN "ProgrammingError"
    ELSE "ok"

BindErrorExactKeys(ph, p) ==
    IF p.kind = "scalar" THEN "ValueError"
    ELSE IF p.kind = "sequence"
    THEN IF p.raises # "none" THEN p.raises
         ELSE IF p.len # Len(ph) THEN "ProgrammingError"
         ELSE "ok"
    ELSE IF \E i \in 1..Len(ph) : ph[i] = "?" THEN "ProgrammingError"
    ELSE IF p.keys # {ph[i] : i \in 1..Len(ph)} /\ ~p.missing
    THEN "ProgrammingError"
    ELSE "ok"

\* Binding the parameters p to the placeholders ph: the exception raised,
\* or "ok".
BindError(ph, p) ==
    IF p.kind = "scalar" THEN "ValueError"
    ELSE IF p.kind = "sequence"
    THEN IF p.raises # "none" THEN p.raises
         ELSE IF p.len # Len(ph) THEN "ProgrammingError"
         ELSE "ok"
    ELSE IF \E i \in 1..Len(ph) : ph[i] = "?" THEN "ProgrammingError"
    ELSE IF \E i \in 1..Len(ph) : ph[i] \notin p.keys /\ ~p.missing
    THEN "ProgrammingError"
    ELSE "ok"

CallOf(op, t, c, k, script, exc, value) ==
    [op |-> op, thread |-> t, cursor |-> c, kind |-> k, script |-> script,
     exc |-> exc, value |-> value, size |-> -1, cx |-> Main,
     category |-> "none", errorcode |-> 0, errorname |-> <<>>,
     message |-> "none", bind |-> PlainBind, pre_tx |-> in_tx,
     pre_ddl |-> ddl_since]

Call(op, t, c, k, exc, value) == CallOf(op, t, c, k, <<>>, exc, value)

\* A fetch that asked for `size` rows and returned `value`.
FetchCall(op, t, c, size, value) ==
    [Call(op, t, c, "none", "ok", value) EXCEPT !.size = size]

WrongThreadNever(t) == FALSE

\* The thread-affinity check of every checked operation.
WrongThread(t) == check_same_thread /\ t # Creator

ImplicitBeginDefaultOnly(k) == isolation_level = "" /\ IsDml(k) /\ ~in_tx
ImplicitBeginOnDdl(k) ==
    isolation_level # "None" /\ (IsDml(k) \/ IsDdl(k)) /\ ~in_tx
ImplicitBeginNever(k) == FALSE
ImplicitBeginOnSelect(k) ==
    isolation_level # "None" /\ (IsDml(k) \/ k = "select") /\ ~in_tx
ImplicitBeginAnyLevel(k) == IsDml(k) /\ ~in_tx

\* The layer opens a transaction before a data-modifying statement.
ImplicitBegin(k) == isolation_level # "None" /\ IsDml(k) /\ ~in_tx

\* The statements the bounds still allow the application to issue.
InputAllowed(k) ==
    /\ k \in kinds
    /\ IsDdl(k) => schema_gen < MaxGen
    /\ k = "insert" => Len(db.rows) < MaxRows /\ NextId(db.rows) <= MaxId
    /\ k \in {"insert_or_rollback", "insert_or_abort", "insert_or_fail",
              "insert_or_ignore"}
          => \/ HasUnique(db.rows, "foo")
             \/ Len(db.rows) < MaxRows /\ NextId(db.rows) <= MaxId
    /\ k = "insert_or_replace" => NextId(db.rows) <= MaxId

\* The schema generation after the database went from `before` to `after`:
\* it advances whenever the schema is no longer the one it stood for.
SchemaGen(g, before, after) ==
    IF after.cols # before.cols THEN g + 1 ELSE g

ColsOf(k, d) ==
    IF k = "select" THEN d.cols ELSE IF k = "select_name" THEN 1 ELSE 0

NeverInUse(c, k) == FALSE

\* A cached statement is busy when another cursor holds it.
InUseByOther(c, k) ==
    \E c2 \in Cursors \ {c} : cur[c2].stmt = "cached" /\ cur[c2].sql = k

NeverStale(e) == FALSE

\* The cached handle is stale when prepared under another schema generation.
IsStale(e) == e.gen # schema_gen

\* lookup_or_prepare: which handle cursor c gets for text k, and the cache
\* entry afterwards.  cch is the cache after c released its old statement.
Lookup(c, k, cch) ==
    LET e == IF k \in ResultKinds THEN cch[k] ELSE NoStmt
        fresh == [gen |-> schema_gen, ncols |-> ColsOf(k, db), rows |-> <<>>]
    IN IF e = NoStmt
       THEN [how |-> "cached", entry |-> fresh, ncols |-> fresh.ncols]
       ELSE IF InUseByOther(c, k)
       THEN [how |-> "own", entry |-> e, ncols |-> fresh.ncols]
       ELSE IF IsStale(e)
       THEN [how |-> "cached", entry |-> fresh, ncols |-> fresh.ncols]
       ELSE [how |-> "cached", entry |-> [e EXCEPT !.rows = <<>>],
             ncols |-> e.ncols]

\* The rows cursor c's statement has still to return.
Remaining(c) ==
    IF cur[c].stmt = "cached" THEN cache[cur[c].sql].rows
    ELSE IF cur[c].stmt = "own" THEN cur[c].rows
    ELSE <<>>

ReleasedEveryStatement(c) ==
    [k \in ResultKinds |-> [cache[k] EXCEPT !.rows = <<>>]]

\* The cache after cursor c let go of the statement it holds: a cached
\* statement is reset, the statements of the other cursors are left alone.
Released(c) ==
    IF cur[c].stmt = "cached"
    THEN [cache EXCEPT ![cur[c].sql].rows = <<>>]
    ELSE cache

Idle(c) == [cur[c] EXCEPT !.stmt = "none", !.sql = "none", !.rows = <<>>]

\* ------------------------------------------------------------------ Init
InitWith(levels, checks, ks, ts, os, nc, szs, rds) ==
    /\ isolation_level \in levels
    /\ check_same_thread \in checks
    /\ kinds = ks
    /\ callers = ts
    /\ ops = os
    /\ ncur = nc
    /\ sizes = szs
    /\ reads = rds
    /\ closed = FALSE
    /\ db = EmptyDb
    /\ committed = EmptyDb
    /\ in_tx = FALSE
    /\ last_insert_rowid = 0
    /\ schema_gen = 0
    /\ cache = [k \in ResultKinds |-> NoStmt]
    /\ cur = [c \in Cursors |-> NoCursor]
    /\ owed = [c \in Cursors |-> <<>>]
    /\ got = [c \in Cursors |-> <<>>]
    /\ limits = [cx \in Conns |-> [cat \in Categories |-> DefaultLimit]]
    /\ locks = [cx \in Conns |-> "none"]
    /\ initialized = FALSE
    /\ total_changes = 0
    /\ since_failure = "no"
    /\ ddl_since = "unseen"
    /\ last = Call("connect", Creator, 0, "none", "ok", NoValue)

\* An application that leaves the limits as they are.
Plain == limcalls = PlainLimcalls /\ binds = {PlainBind}

\* The application profiles the specifications explore.
TxKinds ==
    {"create", "insert", "insert_or_rollback", "delete", "select", "begin"}
DmlProfile ==
    {"create", "update", "delete", "insert_or_replace", "select"}
ApiKinds == {"create", "insert", "select"}
SchemaKinds == {"create", "alter", "insert", "select", "begin"}
ConflictKinds ==
    {"create", "insert", "insert_or_abort", "insert_or_fail", "select",
     "begin"}
AttrKinds ==
    {"create", "insert_or_ignore", "insert_or_abort", "insert_or_fail",
     "insert_or_rollback", "delete", "select"}
RowcountKinds == {"create", "insert", "update", "delete", "select"}

Init ==
    /\ InitWith({"", "IMMEDIATE", "None"}, {TRUE}, TxKinds, {Creator},
                {"enter"}, 1, {DefaultArraysize}, {})
    /\ Plain
InitDml ==
    /\ InitWith({"", "IMMEDIATE", "None"}, {TRUE}, DmlProfile, {Creator},
                {"enter"}, 1, {DefaultArraysize}, {})
    /\ Plain
InitApi ==
    /\ InitWith({"", "None"}, BOOLEAN, ApiKinds, Threads, CheckedOps, 1,
                {DefaultArraysize}, {})
    /\ Plain
InitCursors ==
    /\ InitWith({"None"}, {TRUE}, ApiKinds, {Creator}, {"enter"}, NumCursors,
                {DefaultArraysize}, {})
    /\ Plain
InitSchema ==
    /\ InitWith({"", "None"}, {TRUE}, SchemaKinds, {Creator}, {"enter"}, 1,
                {DefaultArraysize}, {})
    /\ Plain
InitConflict ==
    /\ InitWith({"", "None"}, {TRUE}, ConflictKinds, {Creator}, {"enter"}, 1,
                {DefaultArraysize}, {})
    /\ Plain
InitFetch ==
    /\ InitWith({"None"}, {TRUE}, ApiKinds, {Creator}, {"enter"}, 1,
                1..MaxRows, {})
    /\ Plain
InitAttrs ==
    /\ InitWith({""}, {TRUE}, AttrKinds, {Creator}, {"enter"}, 1,
                {DefaultArraysize}, {"rowcount", "lastrowid"})
    /\ Plain
InitRowcount ==
    /\ InitWith({"", "None"}, {TRUE}, RowcountKinds, {Creator}, {"enter"}, 1,
                {DefaultArraysize}, {"rowcount"})
    /\ Plain
\* An application whose statements fail inside implicit transactions while
\* a second cursor has rows pending.
InitFailure ==
    /\ InitWith({""}, {TRUE},
                {"create", "insert_or_abort", "insert_or_rollback", "select"},
                {Creator}, {"enter"}, NumCursors, {DefaultArraysize}, {})
    /\ Plain
\* An application with two row-returning texts and cursors to share them.
InitCache ==
    /\ InitWith({"None"}, {TRUE},
                {"create", "insert", "select", "select_name"},
                {Creator}, {"enter"}, NumCursors, {DefaultArraysize}, {})
    /\ Plain
\* An application that calls from a second thread, and changes a limit.
InitThreads ==
    /\ InitWith({""}, {TRUE}, ApiKinds, Threads, {"enter"}, 1,
                {DefaultArraysize}, {})
    /\ limcalls = PlainLimcalls \cup {<<Main, "SQL_LENGTH", 1>>}
    /\ binds = {PlainBind}
\* An application that reads total_changes.
InitChanges ==
    /\ InitWith({""}, {TRUE}, RowcountKinds, {Creator}, {"enter"}, 1,
                {DefaultArraysize}, {"total_changes"})
    /\ Plain
\* The application of the limit tests: every SQL-length limit on the
\* connection under test, one other category, one other connection and the
\* category no engine knows.
LimitCalls ==
    {<<Main, "SQL_LENGTH", v>> : v \in 0..MaxLen}
        \cup {<<Main, "COLUMN", 1>>, <<2, "SQL_LENGTH", 1>>,
              <<Main, BadCategory, 0>>, <<2, BadCategory, 0>>}
InitLimits ==
    /\ InitWith({""}, {TRUE}, ApiKinds, {Creator}, {"enter"}, 1,
                {DefaultArraysize}, {})
    /\ limcalls = LimitCalls
    /\ binds = {PlainBind}

\* A call that raises before it touches anything.
Raise(op, t, c, k, exc) ==
    /\ last' = Call(op, t, c, k, exc, NoValue)
    /\ UNCHANGED <<conf, aside, closed, db, committed, in_tx, last_insert_rowid,
                   schema_gen, cache, cur, owed, got>>

CursorCheckConnectionOnly(c, t) ==
    IF WrongThread(t) THEN "ProgrammingError"
    ELSE IF closed THEN "ProgrammingError"
    ELSE "ok"

\* Why a cursor operation is refused outright, or "ok".
CursorCheck(c, t) ==
    IF WrongThread(t) THEN "ProgrammingError"
    ELSE IF cur[c].status = "closed" THEN "ProgrammingError"
    ELSE IF closed THEN "ProgrammingError"
    ELSE "ok"

ConnCheckThreadOnly(t) ==
    IF WrongThread(t) THEN "ProgrammingError" ELSE "ok"

\* Why a connection operation is refused outright, or "ok".
ConnCheck(t) ==
    IF WrongThread(t) THEN "ProgrammingError"
    ELSE IF closed THEN "ProgrammingError"
    ELSE "ok"

\* The value of attribute a when the application reads it, else `none`.
Seen(a, v, none) == IF a \in reads THEN v ELSE none

ChangedByLastOnly(n) == Seen("total_changes", n, 0)

\* sqlite3_total_changes after a statement, or a run of them, that changed
\* n rows.
Changed(n) == Seen("total_changes", total_changes + n, 0)

\* The engine's latest inserted rowid after a statement that inserted `ins`.
LastInsertRowid(ins) == IF ins # 0 THEN ins ELSE last_insert_rowid

DescriptionKeptOnError(c, k, exc, ncols) ==
    IF exc # "ok" THEN cur[c].description
    ELSE IF k \in ResultKinds THEN ncols ELSE -1

\* Cursor attributes after execute: reset, then set from the outcome.
Description(c, k, exc, ncols) ==
    IF k \in ResultKinds /\ exc = "ok" THEN ncols ELSE -1

RowcountOfSelectCounted(k, exc, n, rows) ==
    IF exc # "ok" THEN -1
    ELSE IF IsDml(k) THEN n
    ELSE IF k \in ResultKinds THEN Len(rows) ELSE -1

Rowcount(k, exc, n, rows) == IF exc = "ok" /\ IsDml(k) THEN n ELSE -1

LastrowidOnSuccessOnly(exc, rowid) == IF exc = "ok" THEN rowid ELSE -1

Lastrowid(exc, rowid) == rowid

\* The cursor after an execute that failed before any statement ran.
Failed(c) ==
    [Idle(c) EXCEPT !.description = -1, !.rowcount = -1, !.lastrowid = -1]

\* --------------------------------------------------------------- actions
TooLargeAtLimit(len, lim) == len >= lim

\* The text is too long for a connection whose SQL-length limit is lim.
TooLarge(len, lim) == len > lim

\* Abstract length of the SQL text of each statement, and of a script.
SqlLen(k) == IF k \in {"begin", "select", "delete"} THEN 1 ELSE 2

RECURSIVE ScriptLen(_)
ScriptLen(script) ==
    IF script = <<>> THEN 0 ELSE SqlLen(Head(script)) + ScriptLen(Tail(script))

\* Why no statement can be made of the text of k: it is longer than the
\* connection allows, or the engine rejects it.
CreateError(k) ==
    IF TooLarge(SqlLen(k), limits[Main]["SQL_LENGTH"]) THEN "DataError"
    ELSE PrepareError(k, db)

\* Connection.cursor()
NewCursor(t) ==
    \E c \in Cursors :
        /\ cur[c].status = "none"
        /\ c <= ncur
        /\ \A c2 \in Cursors : c2 < c => cur[c2].status # "none"
        /\ IF ConnCheck(t) # "ok"
           THEN Raise("cursor", t, 0, "none", ConnCheck(t))
           ELSE /\ cur' = [cur EXCEPT ![c].status = "open"]
                /\ last' = Call("cursor", t, c, "none", "ok", NoValue)
                /\ UNCHANGED <<conf, aside, closed, db, committed, in_tx,
                               last_insert_rowid, schema_gen, cache, owed, got>>

\* An execute of statement k with placeholders and parameters b.
ExecuteCall(t, c, k, b, exc) ==
    [Call("execute", t, c, k, exc, NoValue) EXCEPT !.bind = b]

\* Cursor.execute(sql, params)
Execute(c, t, k, b) ==
    /\ cur[c].status # "none"
    /\ InputAllowed(k)
    /\ b \in binds
    /\ IF CursorCheck(c, t) # "ok"
       THEN /\ last' = ExecuteCall(t, c, k, b, CursorCheck(c, t))
            /\ UNCHANGED <<conf, aside, closed, db, committed, in_tx,
                           last_insert_rowid, schema_gen, cache, cur, owed, got>>
       ELSE IF CreateError(k) # "ok"
       THEN /\ cache' = Released(c)
            /\ cur' = [cur EXCEPT ![c] = Failed(c)]
            /\ owed' = [owed EXCEPT ![c] = <<>>]
            /\ got' = [got EXCEPT ![c] = <<>>]
            /\ last' = ExecuteCall(t, c, k, b, CreateError(k))
            /\ UNCHANGED <<conf, aside, closed, db, committed, in_tx,
                           last_insert_rowid, schema_gen>>
       ELSE IF BindError(b.ph, b.params) # "ok"
       THEN \* No test reads in_transaction after a failed binding: the
            \* implicit BEGIN may or may not have been issued by then.
            /\ in_tx' \in {in_tx, in_tx \/ ImplicitBegin(k)}
            /\ cache' = Released(c)
            /\ cur' = [cur EXCEPT ![c] = Failed(c)]
            /\ owed' = [owed EXCEPT ![c] = <<>>]
            /\ got' = [got EXCEPT ![c] = <<>>]
            /\ last' = ExecuteCall(t, c, k, b, BindError(b.ph, b.params))
            /\ UNCHANGED <<conf, aside, closed, db, committed,
                           last_insert_rowid, schema_gen>>
       ELSE LET found == Lookup(c, k, Released(c))
                s == Step(k, db, in_tx \/ ImplicitBegin(k), committed)
                pending == s.exc = "ok" /\ s.rows # <<>>
                shared == pending /\ found.how = "cached"
            IN /\ db' = s.db
               /\ in_tx' = s.tx
               /\ committed' = IF s.tx THEN committed ELSE s.db
               /\ last_insert_rowid' = Seen("lastrowid", LastInsertRowid(s.ins), 0)
               /\ schema_gen' = SchemaGen(schema_gen, db, s.db)
               /\ cache' = IF found.how = "cached" /\ k \in ResultKinds
                           THEN [Released(c) EXCEPT ![k] =
                                   [found.entry EXCEPT !.rows =
                                       IF shared THEN s.rows ELSE <<>>]]
                           ELSE Released(c)
               /\ cur' = [cur EXCEPT ![c] =
                            [status |-> "open",
                             stmt |-> IF pending THEN found.how ELSE "none",
                             sql |-> IF pending THEN k ELSE "none",
                             rows |-> IF pending /\ found.how = "own"
                                      THEN s.rows ELSE <<>>,
                             description |->
                                 Description(c, k, s.exc, found.ncols),
                             rowcount |->
                                 Seen("rowcount",
                                      Rowcount(k, s.exc, s.n, s.rows), -1),
                             lastrowid |->
                                 Seen("lastrowid",
                                      Lastrowid(s.exc, LastInsertRowid(s.ins)),
                                      -1),
                             arraysize |-> cur[c].arraysize]]
               /\ owed' = [owed EXCEPT ![c] =
                             IF s.exc = "ok" THEN s.rows ELSE <<>>]
               /\ got' = [got EXCEPT ![c] = <<>>]
               /\ ddl_since' = IF s.exc # "ok" THEN ddl_since
                                ELSE IF k = "select" THEN "no"
                                ELSE IF IsDdl(k) /\ ddl_since = "no" THEN "yes"
                                ELSE ddl_since
               /\ Changed(s.n) <= MaxChanges
               /\ total_changes' = Changed(s.n)
               /\ last' = ExecuteCall(t, c, k, b, s.exc)
               /\ UNCHANGED <<opts, limits, locks, initialized, since_failure,
                              closed>>

\* The cursor state after its statement returned n more rows.
Advance(c, n) ==
    LET rest == SubSeq(Remaining(c), n + 1, Len(Remaining(c))) IN
    /\ cache' = IF cur[c].stmt = "cached"
                THEN [cache EXCEPT ![cur[c].sql].rows = rest]
                ELSE cache
    /\ cur' = [cur EXCEPT ![c] =
                 IF rest = <<>> THEN Idle(c)
                 ELSE IF cur[c].stmt = "own" THEN [cur[c] EXCEPT !.rows = rest]
                 ELSE cur[c]]
    /\ owed' = [owed EXCEPT ![c] = SubSeq(owed[c], n + 1, Len(owed[c]))]
    /\ got' = [got EXCEPT ![c] = @ \o SubSeq(Remaining(c), 1, n)]
    /\ UNCHANGED <<conf, aside, closed, db, committed, in_tx, last_insert_rowid,
                   schema_gen>>

\* Cursor.fetchone()
Fetchone(c, t) ==
    /\ cur[c].status # "none"
    /\ IF CursorCheck(c, t) # "ok"
       THEN Raise("fetchone", t, c, "none", CursorCheck(c, t))
       ELSE LET n == IF Remaining(c) = <<>> THEN 0 ELSE 1 IN
            /\ Advance(c, n)
            /\ last' = Call("fetchone", t, c, "none", "ok",
                            SubSeq(Remaining(c), 1, n))

FetchallRestarts(c, t) ==
    /\ cur[c].status # "none"
    /\ IF CursorCheck(c, t) # "ok"
       THEN Raise("fetchall", t, c, "none", CursorCheck(c, t))
       ELSE /\ Advance(c, Len(Remaining(c)))
            /\ last' = Call("fetchall", t, c, "none", "ok",
                            IF Remaining(c) = <<>> /\ cur[c].description # -1
                            THEN db.rows ELSE Remaining(c))

\* Cursor.fetchall()
Fetchall(c, t) ==
    /\ cur[c].status # "none"
    /\ IF CursorCheck(c, t) # "ok"
       THEN Raise("fetchall", t, c, "none", CursorCheck(c, t))
       ELSE /\ Advance(c, Len(Remaining(c)))
            /\ last' = Call("fetchall", t, c, "none", "ok", Remaining(c))

IternextPeeks(c, t) ==
    /\ cur[c].status # "none"
    /\ IF CursorCheck(c, t) # "ok"
       THEN Raise("next", t, c, "none", CursorCheck(c, t))
       ELSE LET n == IF Remaining(c) = <<>> THEN 0 ELSE 1 IN
            /\ Advance(c, 0)
            /\ last' = Call("next", t, c, "none",
                            IF n = 0 THEN "StopIteration" ELSE "ok",
                            SubSeq(Remaining(c), 1, n))

\* Cursor.__next__(): the cursor iterated as a sequence of rows.
Iternext(c, t) ==
    /\ cur[c].status # "none"
    /\ IF CursorCheck(c, t) # "ok"
       THEN Raise("next", t, c, "none", CursorCheck(c, t))
       ELSE LET n == IF Remaining(c) = <<>> THEN 0 ELSE 1 IN
            /\ Advance(c, n)
            /\ last' = Call("next", t, c, "none",
                            IF n = 0 THEN "StopIteration" ELSE "ok",
                            SubSeq(Remaining(c), 1, n))

TakeOneLess(rows, size) ==
    SubSeq(rows, 1, IF size - 1 < Len(rows) THEN size - 1 ELSE Len(rows))

\* The next `size` rows of `rows`, or all of them when there are fewer.
Take(rows, size) ==
    SubSeq(rows, 1, IF size < Len(rows) THEN size ELSE Len(rows))

FetchSizes == 0..(MaxRows + 1)

\* Cursor.fetchmany(size)
Fetchmany(c, t, size) ==
    /\ cur[c].status # "none"
    /\ IF CursorCheck(c, t) # "ok"
       THEN Raise("fetchmany", t, c, "none", CursorCheck(c, t))
       ELSE /\ Advance(c, Len(Take(Remaining(c), size)))
            /\ last' = FetchCall("fetchmany", t, c, size,
                                 Take(Remaining(c), size))

\* Cursor.fetchmany() with the size left out
FetchmanyDefault(c, t) ==
    /\ cur[c].status # "none"
    /\ IF CursorCheck(c, t) # "ok"
       THEN Raise("fetchmany", t, c, "none", CursorCheck(c, t))
       ELSE /\ Advance(c, Len(Take(Remaining(c), cur[c].arraysize)))
            /\ last' = FetchCall("fetchmany", t, c, -1,
                                 Take(Remaining(c), cur[c].arraysize))

\* cursor.arraysize = n
SetArraysize(c, t, n) ==
    /\ cur[c].status # "none"
    /\ n \in sizes
    /\ cur' = [cur EXCEPT ![c].arraysize = n]
    /\ last' = FetchCall("arraysize", t, c, n, NoValue)
    /\ UNCHANGED <<conf, aside, closed, db, committed, in_tx, last_insert_rowid,
                   schema_gen, cache, owed, got>>

\* Cursor.close()
CursorClose(c, t) ==
    /\ cur[c].status # "none"
    /\ IF WrongThread(t) \/ closed
       THEN Raise("cursor_close", t, c, "none", "ProgrammingError")
       ELSE /\ cache' = Released(c)
            /\ cur' = [cur EXCEPT ![c] = [Idle(c) EXCEPT !.status = "closed"]]
            /\ owed' = [owed EXCEPT ![c] = <<>>]
            /\ got' = [got EXCEPT ![c] = <<>>]
            /\ last' = Call("cursor_close", t, c, "none", "ok", NoValue)
            /\ UNCHANGED <<conf, aside, closed, db, committed, in_tx,
                           last_insert_rowid, schema_gen>>

\* Connection.commit()
Commit(t) ==
    IF ConnCheck(t) # "ok"
    THEN Raise("commit", t, 0, "none", ConnCheck(t))
    ELSE /\ IF in_tx
            THEN committed' = db /\ in_tx' = FALSE
            ELSE UNCHANGED <<committed, in_tx>>
         /\ last' = Call("commit", t, 0, "none", "ok", NoValue)
         /\ UNCHANGED <<conf, aside, closed, db, last_insert_rowid, schema_gen,
                        cache, cur, owed, got>>

\* Every statement reset: no cursor has rows pending any more.
AllReset ==
    /\ cache' = [k \in ResultKinds |-> [cache[k] EXCEPT !.rows = <<>>]]
    /\ cur' = [c \in Cursors |-> Idle(c)]
    /\ owed' = [c \in Cursors |-> <<>>]
    /\ got' = [c \in Cursors |-> <<>>]

RollbackAlwaysResets(t) ==
    IF ConnCheck(t) # "ok"
    THEN Raise("rollback", t, 0, "none", ConnCheck(t))
    ELSE /\ db' = committed
         /\ in_tx' = FALSE
         /\ schema_gen' = SchemaGen(schema_gen, db, committed)
         /\ AllReset
         /\ last' = Call("rollback", t, 0, "none", "ok", NoValue)
         /\ UNCHANGED <<conf, aside, closed, committed, last_insert_rowid>>

\* Connection.rollback()
Rollback(t) ==
    IF ConnCheck(t) # "ok"
    THEN Raise("rollback", t, 0, "none", ConnCheck(t))
    ELSE /\ IF in_tx
            THEN /\ db' = committed
                 /\ in_tx' = FALSE
                 /\ schema_gen' = SchemaGen(schema_gen, db, committed)
                 /\ AllReset
            ELSE UNCHANGED <<db, in_tx, schema_gen, cache, cur, owed, got>>
         /\ last' = Call("rollback", t, 0, "none", "ok", NoValue)
         /\ UNCHANGED <<conf, aside, closed, committed, last_insert_rowid>>

CloseKeepsCache(t) ==
    /\ ~WrongThread(t)
    /\ closed' = TRUE
    /\ db' = committed
    /\ in_tx' = FALSE
    /\ last' = Call("close", t, 0, "none", "ok", NoValue)
    /\ UNCHANGED <<conf, aside, committed, last_insert_rowid, schema_gen,
                   cache, cur, owed, got>>

\* Connection.close()
Close(t) ==
    IF WrongThread(t)
    THEN Raise("close", t, 0, "none", "ProgrammingError")
    ELSE IF closed
    THEN /\ last' = Call("close", t, 0, "none", "ok", NoValue)
         /\ UNCHANGED <<conf, aside, closed, db, committed, in_tx,
                        last_insert_rowid, schema_gen, cache, cur, owed, got>>
    ELSE /\ closed' = TRUE
         /\ cache' = [k \in ResultKinds |-> NoStmt]
         /\ cur' = [c \in Cursors |-> Idle(c)]
         /\ owed' = [c \in Cursors |-> <<>>]
         /\ got' = [c \in Cursors |-> <<>>]
         /\ db' = committed
         /\ in_tx' = FALSE
         /\ last' = Call("close", t, 0, "none", "ok", NoValue)
         /\ UNCHANGED <<conf, aside, committed, last_insert_rowid, schema_gen>>

\* Why a getlimit/setlimit on connection cx is refused outright, or "ok".
LimitCheck(cx, t, cat) ==
    IF WrongThread(t) THEN "ProgrammingError"
    ELSE IF cx = Main /\ closed THEN "ProgrammingError"
    ELSE IF cat \notin Categories THEN "ProgrammingError"
    ELSE "ok"

LimitCall(op, t, cx, cat, v, exc, value) ==
    [Call(op, t, 0, "none", exc, value) EXCEPT
        !.cx = cx, !.category = cat, !.size = v]

LimitedEverywhere(cx, cat, v) ==
    [cx2 \in Conns |-> [limits[cx2] EXCEPT ![cat] = v]]

\* The limits after connection cx set category cat to v.
Limited(cx, cat, v) == [limits EXCEPT ![cx][cat] = v]

SetlimitChecksLate(t, cx, cat, v) ==
    /\ <<cx, cat, v>> \in limcalls
    /\ limits' = IF cat \in Categories THEN Limited(cx, cat, v) ELSE limits
    /\ last' = LimitCall("setlimit", t, cx, cat, v, LimitCheck(cx, t, cat),
                         IF LimitCheck(cx, t, cat) # "ok" THEN NoValue
                         ELSE <<limits[cx][cat]>>)
    /\ UNCHANGED <<conf, locks, initialized, since_failure, total_changes, closed, db,
                   committed, in_tx, last_insert_rowid, schema_gen, cache,
                   cur, owed, got>>

\* Connection.setlimit(category, limit) -> the limit before the call
Setlimit(t, cx, cat, v) ==
    /\ <<cx, cat, v>> \in limcalls
    /\ IF LimitCheck(cx, t, cat) # "ok"
       THEN /\ limits' = limits
            /\ last' = LimitCall("setlimit", t, cx, cat, v,
                                 LimitCheck(cx, t, cat), NoValue)
       ELSE /\ limits' = Limited(cx, cat, v)
            /\ last' = LimitCall("setlimit", t, cx, cat, v, "ok",
                                 <<limits[cx][cat]>>)
    /\ UNCHANGED <<conf, locks, initialized, since_failure, total_changes, closed, db, committed, in_tx,
                   last_insert_rowid, schema_gen, cache, cur, owed, got>>

\* Connection.getlimit(category)
Getlimit(t, cx, cat) ==
    /\ \E v \in 0..MaxLen : <<cx, cat, v>> \in limcalls
    /\ last' = IF LimitCheck(cx, t, cat) # "ok"
               THEN LimitCall("getlimit", t, cx, cat, -1,
                              LimitCheck(cx, t, cat), NoValue)
               ELSE LimitCall("getlimit", t, cx, cat, -1, "ok",
                              <<limits[cx][cat]>>)
    /\ UNCHANGED <<conf, aside, closed, db, committed, in_tx,
                   last_insert_rowid, schema_gen, cache, cur, owed, got>>

ConnCall(op, t) ==
    /\ op \in ops
    /\ last' = Call(op, t, 0, "none", ConnCheck(t), NoValue)
    /\ UNCHANGED <<conf, aside, closed, db, committed, in_tx, last_insert_rowid,
                   schema_gen, cache, cur, owed, got>>

\* Connection.interrupt(): callable from any thread.
Interrupt(t) ==
    /\ last' = Call("interrupt", t, 0, "none",
                    IF closed THEN "ProgrammingError" ELSE "ok", NoValue)
    /\ UNCHANGED <<conf, aside, closed, db, committed, in_tx, last_insert_rowid,
                   schema_gen, cache, cur, owed, got>>

\* The parameter sets of executemany bound and stepped one after the other.
RECURSIVE RunMany(_, _, _, _, _)
RunMany(k, n, d, tx, com) ==
    IF n = 0 THEN Outcome(d, tx, "ok", <<>>, 0, 0)
    ELSE LET s == Step(k, d, tx, com) IN
         IF s.exc # "ok" THEN s
         ELSE LET r == RunMany(k, n - 1, s.db, s.tx, com) IN
              [r EXCEPT !.n = r.n + s.n,
                        !.ins = IF r.ins # 0 THEN r.ins ELSE s.ins]

Appends(k) ==
    k \in {"insert", "insert_or_rollback", "insert_or_abort", "insert_or_fail",
           "insert_or_ignore", "insert_or_replace"}

\* Cursor.executemany(sql, seq_of_params) with n parameter sets
Executemany(c, t, k, n) ==
    /\ cur[c].status # "none"
    /\ k \in kinds
    /\ Appends(k) => /\ Len(db.rows) + n <= MaxRows + 1
                     /\ NextId(db.rows) + n - 1 <= MaxId
                     /\ k = "insert" => Len(db.rows) + n <= MaxRows
    /\ IF CursorCheck(c, t) # "ok"
       THEN Raise("executemany", t, c, k, CursorCheck(c, t))
       ELSE IF CreateError(k) # "ok" \/ ~IsDml(k)
       THEN /\ cache' = IF CreateError(k) = "ok" /\ k \in ResultKinds
                        THEN [Released(c) EXCEPT ![k] =
                                 Lookup(c, k, Released(c)).entry]
                        ELSE Released(c)
            /\ cur' = [cur EXCEPT ![c] = Failed(c)]
            /\ owed' = [owed EXCEPT ![c] = <<>>]
            /\ got' = [got EXCEPT ![c] = <<>>]
            /\ last' = Call("executemany", t, c, k,
                            IF CreateError(k) # "ok"
                            THEN CreateError(k) ELSE "ProgrammingError",
                            NoValue)
            /\ UNCHANGED <<conf, aside, closed, db, committed, in_tx,
                           last_insert_rowid, schema_gen>>
       ELSE LET s == RunMany(k, n, db, in_tx \/ ImplicitBegin(k), committed)
            IN /\ db' = s.db
               /\ in_tx' = s.tx
               /\ committed' = IF s.tx THEN committed ELSE s.db
               /\ cache' = Released(c)
               /\ last_insert_rowid' = Seen("lastrowid", LastInsertRowid(s.ins), 0)
               /\ cur' = [cur EXCEPT ![c] =
                            [Idle(c) EXCEPT
                               !.description = -1,
                               !.rowcount =
                                   Seen("rowcount",
                                        Rowcount(k, s.exc, s.n, <<>>), -1)]]
               /\ owed' = [owed EXCEPT ![c] = <<>>]
               /\ got' = [got EXCEPT ![c] = <<>>]
               /\ schema_gen' = SchemaGen(schema_gen, db, s.db)
               /\ last' = [Call("executemany", t, c, k, s.exc, NoValue)
                              EXCEPT !.size = n]
               /\ Changed(s.n) <= MaxChanges
               /\ total_changes' = Changed(s.n)
               /\ UNCHANGED <<conf, limits, locks, initialized, since_failure,
                              closed>>

RunBeforeRaiseEager(n) == 0

\* How many parameter sets executemany has bound and stepped when its
\* iterator raises after yielding n of them: it takes them one at a time.
RunBeforeRaise(n) == n

\* Cursor.executemany(sql, it) of a DML statement, where the iterator it
\* raises ZeroDivisionError after it has yielded n parameter sets.
ExecutemanyRaising(c, t, k, n) ==
    /\ cur[c].status # "none"
    /\ k \in kinds
    /\ IsDml(k)
    /\ Appends(k) => /\ Len(db.rows) + n <= MaxRows
                     /\ NextId(db.rows) + n - 1 <= MaxId
    /\ CursorCheck(c, t) = "ok"
    /\ CreateError(k) = "ok"
    /\ LET s == RunMany(k, RunBeforeRaise(n), db, in_tx \/ ImplicitBegin(k),
                        committed)
       IN /\ db' = s.db
          /\ in_tx' = s.tx
          /\ committed' = IF s.tx THEN committed ELSE s.db
          /\ cache' = Released(c)
          /\ last_insert_rowid' = Seen("lastrowid", LastInsertRowid(s.ins), 0)
          \* No test reads rowcount after a failed executemany.
          /\ \E rc \in {-1, Seen("rowcount", s.n, -1)} :
                cur' = [cur EXCEPT ![c] =
                           [Idle(c) EXCEPT !.description = -1,
                                           !.rowcount = rc]]
          /\ owed' = [owed EXCEPT ![c] = <<>>]
          /\ got' = [got EXCEPT ![c] = <<>>]
          /\ schema_gen' = SchemaGen(schema_gen, db, s.db)
          /\ last' = [Call("executemany", t, c, k,
                           IF s.exc # "ok" THEN s.exc ELSE "ZeroDivisionError",
                           NoValue)
                         EXCEPT !.size = n]
          /\ Changed(s.n) <= MaxChanges
          /\ total_changes' = Changed(s.n)
          /\ UNCHANGED <<conf, limits, locks, initialized, since_failure,
                         closed>>

AfterFailureSkips(rest) == rest

\* What executescript still runs of the rest of its script once a statement
\* has failed: nothing.
AfterFailure(rest) == <<>>

\* The statements of a script run in order until one fails.
RECURSIVE RunScript(_, _, _, _, _, _)
RunScript(script, d, tx, com, g, ins) ==
    IF script = <<>>
    THEN [db |-> d, tx |-> tx, com |-> com, gen |-> g, ins |-> ins,
          exc |-> "ok", n |-> 0]
    ELSE LET k == Head(script) IN
         IF PrepareError(k, d) # "ok"
         THEN [RunScript(AfterFailure(Tail(script)), d, tx, com, g, ins)
                  EXCEPT !.exc = PrepareError(k, d)]
         ELSE LET s == Step(k, d, tx, com)
                  c2 == IF s.tx THEN com ELSE s.db
                  g2 == SchemaGen(g, d, s.db)
                  i2 == IF s.ins # 0 THEN s.ins ELSE ins
              IN IF s.exc # "ok"
                 THEN [RunScript(AfterFailure(Tail(script)), s.db, s.tx, c2,
                                 g2, i2)
                          EXCEPT !.exc = s.exc, !.n = @ + s.n]
                 ELSE [RunScript(Tail(script), s.db, s.tx, c2, g2, i2)
                          EXCEPT !.n = @ + s.n]

CommitFirstNever == [tx |-> in_tx, com |-> committed]

\* executescript first commits the open transaction, if any: the transaction
\* flag and the committed database the script starts with.
CommitFirst == [tx |-> FALSE, com |-> db]

Scripts ==
    {<<k>> : k \in AllKinds}
        \cup {<<"create", "insert">>, <<"create", "create", "alter">>,
              <<"begin", "insert">>, <<"insert", "create", "insert">>}

Count(script, S) == Cardinality({i \in 1..Len(script) : script[i] \in S})

\* Cursor.executescript(sql)
Executescript(c, t, script) ==
    /\ cur[c].status # "none"
    /\ script \in Scripts
    /\ \A i \in 1..Len(script) : script[i] \in kinds
    /\ Count(script, DdlKinds) > 0
          => schema_gen + Count(script, DdlKinds) <= MaxGen
    /\ Count(script, DmlKinds) > 0
          => /\ Len(db.rows) + Count(script, DmlKinds) <= MaxRows
             /\ NextId(db.rows) + Count(script, DmlKinds) - 1 <= MaxId
    /\ IF CursorCheck(c, t) # "ok"
             \/ TooLarge(ScriptLen(script), limits[Main]["SQL_LENGTH"])
       THEN /\ last' = CallOf("executescript", t, c, "none", script,
                              IF CursorCheck(c, t) # "ok"
                              THEN CursorCheck(c, t) ELSE "DataError",
                              NoValue)
            /\ UNCHANGED <<conf, aside, closed, db, committed, in_tx,
                           last_insert_rowid, schema_gen, cache, cur, owed, got>>
       ELSE LET s == RunScript(script, db, CommitFirst.tx, CommitFirst.com,
                               schema_gen, 0) IN
            /\ db' = s.db
            /\ in_tx' = s.tx
            /\ committed' = s.com
            /\ last_insert_rowid' = Seen("lastrowid", LastInsertRowid(s.ins), 0)
            /\ schema_gen' = s.gen
            /\ ddl_since' = IF s.gen # schema_gen /\ ddl_since = "no"
                             THEN "yes" ELSE ddl_since
            /\ last' = CallOf("executescript", t, c, "none", script, s.exc,
                              NoValue)
            /\ Changed(s.n) <= MaxChanges
            /\ total_changes' = Changed(s.n)
            /\ UNCHANGED <<opts, limits, locks, initialized, since_failure,
                           closed, cache, cur, owed, got>>

\* translate(primary_code, extended_code, message): the exception raised
\* for an engine result code, with the code and its name as fields.
Translate(code, msg) ==
    /\ last' = [Call("translate", Creator, 0, "none", ClassOf(Family(code)),
                     NoValue)
                  EXCEPT !.errorcode = code, !.errorname = ErrorName(code),
                         !.message = msg]
    /\ UNCHANGED <<conf, aside, closed, db, committed, in_tx,
                   last_insert_rowid, schema_gen, cache, cur, owed, got>>

\* ------------------------------------------------------------------ Next
Next ==
    \/ \E t \in callers : NewCursor(t)
    \/ \E c \in Cursors, t \in callers, k \in AllKinds, b \in binds :
          Execute(c, t, k, b)
    \/ \E c \in Cursors, t \in callers, k \in AllKinds, n \in 0..MaxRows :
          Executemany(c, t, k, n)
    \/ \E c \in Cursors, t \in callers, s \in Scripts : Executescript(c, t, s)
    \/ \E c \in Cursors, t \in callers : Fetchone(c, t)
    \/ \E c \in Cursors, t \in callers : Fetchall(c, t)
    \/ \E c \in Cursors, t \in callers, n \in FetchSizes : Fetchmany(c, t, n)
    \/ \E c \in Cursors, t \in callers : FetchmanyDefault(c, t)
    \/ \E c \in Cursors, t \in callers : Iternext(c, t)
    \/ \E c \in Cursors, t \in callers, n \in 1..MaxRows :
          SetArraysize(c, t, n)
    \/ \E c \in Cursors, t \in callers : CursorClose(c, t)
    \/ \E t \in callers : Commit(t)
    \/ \E t \in callers : Rollback(t)
    \/ \E t \in callers : Close(t)
    \/ \E t \in callers, op \in CheckedOps : ConnCall(op, t)
    \/ \E t \in callers : Interrupt(t)
    \/ \E t \in callers, cx \in Conns, cat \in Categories \cup {BadCategory},
          v \in 0..MaxLen : Setlimit(t, cx, cat, v)
    \/ \E t \in callers, cx \in Conns, cat \in Categories \cup {BadCategory} :
          Getlimit(t, cx, cat)

Spec == Init /\ [][Next]_vars
SpecDml == InitDml /\ [][Next]_vars
SpecApi == InitApi /\ [][Next]_vars
SpecCursors == InitCursors /\ [][Next]_vars
SpecSchema == InitSchema /\ [][Next]_vars
SpecConflict == InitConflict /\ [][Next]_vars
SpecFetch == InitFetch /\ [][Next]_vars
SpecAttrs == InitAttrs /\ [][Next]_vars
SpecRowcount == InitRowcount /\ [][Next]_vars
SpecLimits == InitLimits /\ [][Next]_vars
SpecFailure == InitFailure /\ [][Next]_vars
SpecChanges == InitChanges /\ [][Next]_vars
SpecThreads == InitThreads /\ [][Next]_vars

\* The application of the rowcount tests, with iterators that raise.
NextLazy ==
    \/ Next
    \/ \E c \in Cursors, t \in callers, k \in AllKinds, n \in 0..MaxRows :
          ExecutemanyRaising(c, t, k, n)
SpecLazy == InitRowcount /\ [][NextLazy]_vars
SpecCache == InitCache /\ [][Next]_vars

\* The application of the parameter tests: positional placeholders with
\* sequences of every length, with a failing __len__, a mapping and a
\* scalar; named placeholders with every mapping; no placeholder with and
\* without parameters.
BindCalls ==
    {Bind(ph, p) : ph \in {q \in Placeholders : q # <<>> /\ q[1] = "?"},
                   p \in Sequences}
        \cup {Bind(<<"?">>, p) : p \in {BadLen, Scalar, MappingOf({"name"}, FALSE)}}
        \cup {Bind(ph, p) : ph \in {<<"name">>, <<"name", "id">>},
                            p \in Mappings}
        \cup {Bind(<<>>, p) :
                 p \in {NoParams, SequenceOf(1), MappingOf({"extra"}, FALSE)}}
InitBind ==
    /\ InitWith({""}, {TRUE}, ApiKinds, {Creator}, {"enter"}, 1,
                {DefaultArraysize}, {})
    /\ limcalls = PlainLimcalls
    /\ binds = BindCalls
SpecBind == InitBind /\ [][Next]_vars

\* The error translation applied to every result code.
InitErrors ==
    /\ InitWith({""}, {TRUE}, ApiKinds, {Creator}, {"enter"}, 1,
                {DefaultArraysize}, {})
    /\ Plain
NextErrors == \E code \in ResultCodes, msg \in Messages : Translate(code, msg)
SpecErrors == InitErrors /\ [][NextErrors]_vars

\* ------------------------------------------------- uninitialised objects
\* The object of UninitialisedConnectionTests, apart from the connection
\* under test: made by Connection.__new__, no __init__ yet.
Fresh == 0
NotCalled == "Base Connection.__init__ not called"
UninitOps ==
    {"isolation_level", "total_changes", "in_transaction", "iterdump",
     "cursor", "close"}

InitCheckSparesClose(op) ==
    IF ~initialized /\ op # "close" THEN "ProgrammingError" ELSE "ok"

\* Every attribute and method first checks that __init__ has run.
InitCheck(op) == IF ~initialized THEN "ProgrammingError" ELSE "ok"

\* An attribute read or a call on the object before its __init__.
UninitCall(t, op) ==
    /\ ~initialized
    /\ last' = [Call(op, t, 0, "none", InitCheck(op), NoValue) EXCEPT
                   !.cx = Fresh,
                   !.message = IF InitCheck(op) = "ok" THEN "none"
                               ELSE NotCalled]
    /\ UNCHANGED <<conf, aside, closed, db, committed, in_tx,
                   last_insert_rowid, schema_gen, cache, cur, owed, got>>

\* Connection.__init__ on the object: from then on it is a connection like
\* the one under test.
ConnectionInit(t) ==
    /\ ~initialized
    /\ initialized' = TRUE
    /\ last' = [Call("connect", t, 0, "none", "ok", NoValue) EXCEPT
                   !.cx = Fresh]
    /\ UNCHANGED <<conf, limits, locks, since_failure, total_changes, closed, db, committed,
                   in_tx, last_insert_rowid, schema_gen, cache, cur, owed,
                   got>>

NextUninit ==
    \/ Next
    \/ \E t \in callers, op \in UninitOps : UninitCall(t, op)
    \/ \E t \in callers : ConnectionInit(t)

SpecUninit == InitFetch /\ [][NextUninit]_vars

\* ------------------------------------------------------------- file locks
\* Two connections on one database file (MultiprocessTests): Main is the
\* connection of the process under test, Peer the other process's, which
\* creates the table and then only reads, in explicit transactions.
Peer == CHOOSE cx \in Conns : cx # Main
Locked == "database is locked"

\* The engine's lock compatibility.  A reader needs a shared lock, which a
\* pending or exclusive lock of another connection excludes; a writer needs
\* the one reserved lock; a commit needs the exclusive lock, which any lock
\* of another connection excludes, and fails once the timeout has passed.
CanRead(cx) ==
    \A o \in Conns \ {cx} : locks[o] \notin {"pending", "exclusive"}
CanWrite(cx) == \A o \in Conns \ {cx} : locks[o] \in {"none", "shared"}
CanCommit(cx) == \A o \in Conns \ {cx} : locks[o] = "none"

FileCall(op, cx, k, script, exc, msg) ==
    [CallOf(op, Creator, 0, k, script, exc, NoValue) EXCEPT
        !.cx = cx, !.message = msg]

\* The other process: with cx: cx.execute("create table t(t)")
PeerCreate ==
    /\ PrepareError("create", committed) = "ok"
    /\ ~in_tx
    /\ locks[Peer] = "none"
    /\ CanCommit(Peer)
    /\ db' = Step("create", committed, FALSE, committed).db
    /\ committed' = db'
    /\ last' = FileCall("execute", Peer, "create", <<>>, "ok", "none")
    /\ UNCHANGED <<conf, aside, closed, in_tx, last_insert_rowid, schema_gen,
                   cache, cur, owed, got>>

\* The other process: begin transaction; select * from t
PeerBegin ==
    /\ PrepareError("select", committed) = "ok"
    /\ locks[Peer] = "none"
    /\ IF CanRead(Peer)
       THEN /\ locks' = [locks EXCEPT ![Peer] = "shared"]
            /\ since_failure' =
                   IF since_failure = "failed" THEN "begun" ELSE since_failure
            /\ last' = FileCall("executescript", Peer, "none",
                                <<"begin", "select">>, "ok", "none")
       ELSE /\ last' = FileCall("executescript", Peer, "none",
                                <<"begin", "select">>, "OperationalError",
                                Locked)
            /\ UNCHANGED <<locks, since_failure>>
    /\ UNCHANGED <<conf, limits, initialized, total_changes, closed, db, committed, in_tx,
                   last_insert_rowid, schema_gen, cache, cur, owed, got>>

\* The other process: rollback
PeerRollback ==
    /\ locks[Peer] = "shared"
    /\ locks' = [locks EXCEPT ![Peer] = "none"]
    /\ since_failure' =
           IF since_failure = "begun" THEN "finished" ELSE since_failure
    /\ last' = FileCall("rollback", Peer, "none", <<>>, "ok", "none")
    /\ UNCHANGED <<conf, limits, initialized, total_changes, closed, db, committed, in_tx,
                   last_insert_rowid, schema_gen, cache, cur, owed, got>>

\* Inside a with block of the connection: cx.execute("insert into t ...")
WithExecute(t) ==
    LET tx == in_tx \/ ImplicitBegin("insert")
        s == Step("insert", db, tx, committed)
    IN
    /\ InputAllowed("insert")
    /\ IF ConnCheck(t) # "ok"
       THEN Raise("execute", t, 0, "insert", ConnCheck(t))
       ELSE IF PrepareError("insert", db) # "ok"
       THEN Raise("execute", t, 0, "insert", PrepareError("insert", db))
       ELSE IF ~(IF tx THEN CanWrite(Main) ELSE CanCommit(Main))
       THEN /\ last' = [FileCall("execute", Main, "insert", <<>>,
                                 "OperationalError", Locked)
                           EXCEPT !.thread = t]
            /\ UNCHANGED <<conf, aside, closed, db, committed, in_tx,
                           last_insert_rowid, schema_gen, cache, cur, owed,
                           got>>
       ELSE /\ db' = s.db
            /\ in_tx' = s.tx
            /\ committed' = IF s.tx THEN committed ELSE s.db
            /\ last_insert_rowid' =
                   Seen("lastrowid", LastInsertRowid(s.ins), 0)
            /\ locks' = [locks EXCEPT
                            ![Main] = IF s.tx THEN "reserved" ELSE "none"]
            /\ since_failure' = "no"
            /\ total_changes' = Changed(s.n)
            /\ last' = Call("execute", t, 0, "insert", "ok", NoValue)
            /\ UNCHANGED <<conf, limits, initialized, closed, schema_gen,
                           cache, cur, owed, got>>

AfterFailedCommitKeepsLock ==
    [tx |-> in_tx, db |-> db, lock |-> "pending"]

\* What Connection.__exit__ leaves when its commit failed: it rolls back,
\* which ends the transaction and releases the connection's lock.
AfterFailedCommit == [tx |-> FALSE, db |-> committed, lock |-> "none"]

\* Connection.__exit__(None, None, None), the end of a with block that
\* raised nothing: commit, and roll back if the commit fails.
Exit(t) ==
    IF ConnCheck(t) # "ok"
    THEN Raise("exit", t, 0, "none", ConnCheck(t))
    ELSE IF ~in_tx
    THEN /\ last' = Call("exit", t, 0, "none", "ok", NoValue)
         /\ UNCHANGED <<conf, aside, closed, db, committed, in_tx,
                        last_insert_rowid, schema_gen, cache, cur, owed, got>>
    ELSE IF CanCommit(Main)
    THEN /\ committed' = db
         /\ in_tx' = FALSE
         /\ locks' = [locks EXCEPT ![Main] = "none"]
         /\ last' = Call("exit", t, 0, "none", "ok", NoValue)
         /\ UNCHANGED <<conf, limits, initialized, since_failure, total_changes,
                        closed, db,
                        last_insert_rowid, schema_gen, cache, cur, owed, got>>
    ELSE /\ db' = AfterFailedCommit.db
         /\ in_tx' = AfterFailedCommit.tx
         /\ locks' = [locks EXCEPT ![Main] = AfterFailedCommit.lock]
         /\ schema_gen' = SchemaGen(schema_gen, db, db')
         /\ IF in_tx' THEN UNCHANGED <<cache, cur, owed, got>> ELSE AllReset
         /\ since_failure' = "failed"
         /\ last' = [FileCall("exit", Main, "none", <<>>, "OperationalError",
                              Locked)
                        EXCEPT !.thread = t]
         /\ UNCHANGED <<conf, limits, initialized, total_changes, closed,
                        committed, last_insert_rowid>>

\* An application that shares the database file with another process.
InitFile ==
    /\ InitWith({"", "IMMEDIATE", "None"}, {TRUE}, {"create", "insert"},
                {Creator}, {"enter"}, 1, {DefaultArraysize}, {})
    /\ Plain

NextFile ==
    \/ PeerCreate
    \/ PeerBegin
    \/ PeerRollback
    \/ \E t \in callers : WithExecute(t)
    \/ \E t \in callers : Exit(t)

SpecFile == InitFile /\ [][NextFile]_vars

\* ---------------------------------------------------------------- claims
Fetches == {"fetchone", "fetchmany", "fetchall", "next"}
Executed(k) == last.op = "execute" /\ last.kind = k /\ last.exc = "ok"

\* C1: with isolation_level not autocommit, in_transaction is false right
\* after open, true after every successful data-modifying statement
\* (INSERT/UPDATE/DELETE/REPLACE) and false right after commit() or
\* rollback(), whatever SELECTs and fetches came in between.
C1_InTransactionFollowsDml ==
    isolation_level # "None" =>
        /\ last.op = "connect" => ~in_tx
        /\ (last.op = "execute" /\ IsDml(last.kind) /\ last.exc = "ok")
              => in_tx
        /\ (last.op \in {"commit", "rollback"} /\ last.exc = "ok") => ~in_tx

C1_Witness ==
    /\ isolation_level = "IMMEDIATE"
    /\ Executed("update")
    /\ ~last.pre_tx
    /\ in_tx
    /\ Len(db.rows) = 1
    /\ committed.rows = db.rows

\* C2 as claimed: with isolation_level not autocommit and no transaction
\* open, a DDL statement opens a transaction, so in_transaction is true
\* after it.
C2_DdlOpensTransaction ==
    (isolation_level # "None" /\ last.op = "execute" /\ IsDdl(last.kind)
        /\ last.exc = "ok" /\ ~last.pre_tx) => in_tx

\* C2 as amended: with isolation_level not autocommit and no transaction
\* open, a DDL statement runs without an implicit BEGIN and in_transaction
\* is still false after it.
C2_DdlOpensNoTransaction ==
    (isolation_level # "None" /\ last.op = "execute" /\ IsDdl(last.kind)
        /\ last.exc = "ok" /\ ~last.pre_tx) => ~in_tx

C2_Witness ==
    /\ isolation_level = ""
    /\ Executed("alter")
    /\ ~last.pre_tx
    /\ db.cols = BaseCols + 1

\* C3: on a fresh connection with the default isolation level, CREATE TABLE
\* leaves in_transaction false and the INSERT that follows makes it true.
C3_CreateThenInsert ==
    (isolation_level = "" /\ schema_gen = 1 /\ ~last.pre_tx) =>
        /\ Executed("create") => ~in_tx
        /\ (Executed("insert") /\ Len(db.rows) = 1) => in_tx

C3_Witness ==
    /\ isolation_level = ""
    /\ schema_gen = 1
    /\ Executed("insert")
    /\ ~last.pre_tx
    /\ committed = [cols |-> BaseCols, rows |-> <<>>]
    /\ Len(db.rows) = 1
    /\ in_tx

\* C4: executing or fetching a SELECT never changes in_transaction, and a
\* transaction that was open is closed only by a call that commits or rolls
\* back: commit(), rollback(), the commit that starts executescript(), a
\* conflicting INSERT OR ROLLBACK, or close().
C4_SelectKeepsTransaction ==
    /\ (last.op \in Fetches \/ (last.op = "execute" /\ last.kind = "select"))
          => in_tx = last.pre_tx
    /\ (last.pre_tx /\ ~in_tx) =>
          \/ last.op \in {"commit", "rollback", "executescript", "close"}
          \/ /\ last.op \in {"execute", "executemany"}
             /\ last.kind = "insert_or_rollback"
             /\ last.exc = "IntegrityError"

C4_Witness ==
    /\ last.op = "fetchone"
    /\ last.value # <<>>
    /\ last.pre_tx
    /\ in_tx
    /\ isolation_level # "None"

\* C5: in autocommit mode the layer never begins a transaction: one is
\* opened only by a literal BEGIN of the application, and while none is open
\* every statement's effect is already committed.
C5_AutocommitNeverBegins ==
    isolation_level = "None" =>
        /\ ~in_tx => committed = db
        /\ (in_tx /\ ~last.pre_tx) =>
              \/ last.op = "execute" /\ last.kind = "begin"
              \/ /\ last.op = "executescript"
                 /\ \E i \in 1..Len(last.script) : last.script[i] = "begin"

C5_Witness ==
    /\ isolation_level = "None"
    /\ Executed("insert")
    /\ ~last.pre_tx
    /\ ~in_tx
    /\ Len(committed.rows) = 2

\* C6: once the connection is closed every operation on it and on its
\* cursors raises ProgrammingError and changes nothing, except close(),
\* which returns normally and changes nothing either.  Assigning the
\* arraysize attribute is not a call on the connection or the cursor.
C6_ClosedOnlyRaises ==
    [][(closed /\ last'.op # "arraysize") =>
          /\ (last'.op = "close" /\ ~WrongThread(last'.thread))
                => last'.exc = "ok"
          /\ last'.op # "close" => last'.exc = "ProgrammingError"
          /\ UNCHANGED <<closed, db, committed, in_tx, schema_gen, cache,
                         cur, owed>>]_vars

C6_Witness ==
    /\ closed
    /\ last.op = "executescript"
    /\ last.thread = Creator
    /\ last.exc = "ProgrammingError"
    /\ cur[1].status = "open"

\* C7: cursors that execute the same SQL text each keep their own position:
\* what a cursor's statement has still to return is always exactly the rest
\* of the result of that cursor's own execution.
C7_CursorsIndependent ==
    \A c \in Cursors : Remaining(c) = owed[c]

C7_Witness ==
    /\ cur[1].stmt = "cached"
    /\ cur[2].stmt = "own"
    /\ cur[1].sql = cur[2].sql
    /\ Len(Remaining(1)) = 2
    /\ Len(Remaining(2)) = 1
    /\ last.op = "fetchone"
    /\ last.cursor = 2

ListedOps ==
    {"cursor", "commit", "rollback", "close", "set_trace_callback",
     "set_authorizer", "create_collation", "setlimit", "getlimit",
     "execute", "cursor_close", "fetchone"}

C9_ThreadAffinity ==
    (last.thread # Creator /\ last.op \in ListedOps) =>
        IF check_same_thread THEN last.exc = "ProgrammingError"
        ELSE last.exc = "ProgrammingError" =>
                \/ closed
                \/ last.cursor # 0 /\ cur[last.cursor].status = "closed"

C9_Witness ==
    /\ check_same_thread
    /\ last.thread = "other"
    /\ last.op = "fetchone"
    /\ last.exc = "ProgrammingError"
    /\ ~closed
    /\ cur[1].stmt = "cached"

\* C10: an INSERT OR ROLLBACK that conflicts raises IntegrityError and ends
\* the enclosing transaction by rolling it back: in_transaction is false and
\* the database is what it was before the transaction began.
C10_OrRollbackUndoesTransaction ==
    (last.op = "execute" /\ last.kind = "insert_or_rollback"
        /\ last.exc = "IntegrityError")
        => ~in_tx /\ db = committed

C10_Witness ==
    /\ last.op = "execute"
    /\ last.kind = "insert_or_rollback"
    /\ last.exc = "IntegrityError"
    /\ last.pre_tx
    /\ isolation_level = "None"
    /\ db = [cols |-> BaseCols, rows |-> <<>>]

\* C11: an INSERT OR ABORT or INSERT OR FAIL that conflicts raises
\* IntegrityError and undoes nothing but itself: the database keeps the rows
\* of the earlier statements, an open transaction stays open, and a commit()
\* then makes exactly the rows in the database permanent.
C11_AbortUndoesStatementOnly ==
    [][/\ (/\ last'.op = "execute"
           /\ last'.kind \in {"insert_or_abort", "insert_or_fail"}
           /\ last'.exc = "IntegrityError")
          => /\ db' = db
             /\ committed' = committed
             /\ in_tx => in_tx'
       /\ (last'.op = "commit" /\ last'.exc = "ok")
          => db' = db /\ committed' = db /\ ~in_tx']_vars

C11_Witness ==
    /\ last.op = "execute"
    /\ last.kind = "insert_or_abort"
    /\ last.exc = "IntegrityError"
    /\ isolation_level = "None"
    /\ last.pre_tx
    /\ in_tx
    /\ committed.rows = <<>>
    /\ Len(db.rows) = 2
    /\ db.rows[1].name = "abort_test"
    /\ db.rows[2].u = "foo"

\* C13: executescript() commits the open transaction before the script runs:
\* called with a transaction open and a script that has no BEGIN, it leaves
\* in_transaction false and the changes made before the call committed.
C13_ExecutescriptCommitsFirst ==
    [][(/\ last'.op = "executescript"
        /\ last'.exc # "ProgrammingError"
        /\ in_tx
        /\ \A i \in 1..Len(last'.script) : last'.script[i] # "begin")
          => /\ ~in_tx'
             /\ committed' = db'
             /\ last'.script = <<"select">> => committed' = db]_vars

C13_Witness ==
    /\ last.op = "executescript"
    /\ last.script = <<"select">>
    /\ last.exc = "ok"
    /\ last.pre_tx
    /\ ~in_tx
    /\ isolation_level = ""
    /\ Len(committed.rows) = 1

\* C14: commit() and rollback() on an open connection with no transaction
\* open raise nothing and change nothing, each time they are called.
C14_NoTransactionNoOp ==
    [][(/\ last'.op \in {"commit", "rollback"}
        /\ ~in_tx
        /\ ~closed
        /\ ~WrongThread(last'.thread))
          => /\ last'.exc = "ok"
             /\ ~in_tx'
             /\ UNCHANGED <<closed, db, committed, last_insert_rowid,
                            schema_gen, cache, cur, owed>>]_vars

C14_Witness ==
    /\ last.op = "rollback"
    /\ last.exc = "ok"
    /\ ~last.pre_tx
    /\ ~closed
    /\ isolation_level = "None"
    /\ Len(db.rows) = 2
    /\ owed[1] = db.rows

\* C15: exhaustion is idempotent: a fetchone, fetchmany or fetchall on a
\* cursor that has no row left to deliver, because its result is exhausted or
\* because it has none, returns nothing and changes nothing, every time.
C15_ExhaustionIdempotent ==
    [][(/\ last'.op \in {"fetchone", "fetchmany", "fetchall"}
        /\ last'.exc = "ok"
        /\ owed[last'.cursor] = <<>>)
          => /\ last'.value = <<>>
             /\ UNCHANGED <<db, in_tx, cache, cur, owed, got>>]_vars

C15_Witness ==
    /\ last.op = "fetchmany"
    /\ last.exc = "ok"
    /\ last.size = MaxRows
    /\ last.value = <<>>
    /\ owed[1] = <<>>
    /\ Len(got[1]) = MaxRows
    /\ cur[1].description = BaseCols

\* C16: the cursor is a forward-only sequence: every fetchone, fetchmany,
\* fetchall and iteration step returns the next rows of the cursor's result
\* in result order and leaves exactly the rows after them still to deliver;
\* an iteration step returns what fetchone would and stops at exhaustion.
C16_ForwardOnlySequence ==
    [][(last'.op \in Fetches /\ last'.exc \in {"ok", "StopIteration"})
          => \A c \in Cursors : c = last'.cursor =>
             LET v == last'.value
             IN /\ v = SubSeq(owed[c], 1, Len(v))
                /\ Remaining(c)' = SubSeq(owed[c], Len(v) + 1, Len(owed[c]))
                /\ got'[c] = got[c] \o v
                /\ last'.op \in {"fetchone", "next"}
                      => Len(v) = IF owed[c] = <<>> THEN 0 ELSE 1
                /\ last'.op = "next"
                      => (last'.exc = "StopIteration" <=> owed[c] = <<>>)
                /\ last'.op = "fetchall" => v = owed[c]]_vars

C16_Witness ==
    /\ last.op = "next"
    /\ last.exc = "ok"
    /\ Len(db.rows) = 2
    /\ got[1] = db.rows
    /\ last.value = <<db.rows[2]>>
    /\ owed[1] = <<>>

\* C17: fetchmany(size) returns the next min(size, remaining) rows in order,
\* with the cursor's arraysize as size when none is given; arraysize is 1 on
\* a new cursor and is what was last assigned to it.
C17_FetchmanySize ==
    [][/\ (last'.op = "fetchmany" /\ last'.exc = "ok")
          => LET c == last'.cursor
                 asked == IF last'.size = -1 THEN cur[c].arraysize
                          ELSE last'.size
                 n == IF asked < Len(owed[c]) THEN asked ELSE Len(owed[c])
             IN last'.value = SubSeq(owed[c], 1, n)
       /\ (last'.op = "cursor" /\ last'.exc = "ok")
          => cur'[last'.cursor].arraysize = 1
       /\ last'.op = "arraysize"
          => cur'[last'.cursor].arraysize = last'.size]_vars

C17_Witness ==
    /\ last.op = "fetchmany"
    /\ last.size = -1
    /\ cur[1].arraysize = 2
    /\ Len(last.value) = 2
    /\ owed[1] = <<>>

\* C18: an INSERT OR IGNORE whose row conflicts raises nothing and inserts
\* nothing, so the table still holds one row with that value, and the
\* cursor's lastrowid is the id of the latest successful insert, as before.
C18_IgnoreContributesNothing ==
    [][(/\ last'.op = "execute"
        /\ last'.kind = "insert_or_ignore"
        /\ last'.exc # "ProgrammingError"
        /\ HasUnique(db.rows, "foo"))
          => /\ last'.exc = "ok"
             /\ db' = db
             /\ Cardinality({i \in 1..Len(db'.rows) :
                                db'.rows[i].u = "foo"}) = 1
             /\ last_insert_rowid' = last_insert_rowid
             /\ cur'[last'.cursor].lastrowid = last_insert_rowid
             /\ cur[last'.cursor].lastrowid = last_insert_rowid
                   => cur'[last'.cursor].lastrowid
                         = cur[last'.cursor].lastrowid]_vars

C18_Witness ==
    /\ last.op = "execute"
    /\ last.kind = "insert_or_ignore"
    /\ last.exc = "ok"
    /\ cur[1].rowcount = 0
    /\ cur[1].lastrowid = 1
    /\ Len(db.rows) = 1
    /\ db.rows[1].id = 1
    /\ db.rows[1].u = "foo"

\* C19: after every execute() the cursor's description, rowcount and
\* lastrowid are those of the call's own outcome, whatever they were before:
\* none after a failure (lastrowid: the engine's latest insert once the
\* statement ran), and after a success the column count of a SELECT, the
\* number of rows a data-modifying statement changed, and the engine's latest
\* inserted rowid.
C19_AttributesFromOutcome ==
    [][(last'.op = "execute" /\ last'.exc # "ProgrammingError")
          => \A c \in Cursors : c = last'.cursor =>
             LET k == last'.kind
                 ok == last'.exc = "ok"
             IN /\ cur'[c].description =
                      IF ok /\ k = "select" THEN db'.cols ELSE -1
                /\ cur'[c].rowcount =
                      IF ok /\ k = "delete" THEN Len(db.rows)
                      ELSE IF ok /\ IsDml(k)
                      THEN Len(db'.rows) - Len(db.rows)
                      ELSE -1
                /\ cur'[c].lastrowid =
                      IF last'.exc = "OperationalError" THEN -1
                      ELSE last_insert_rowid']_vars

C19_Witness ==
    /\ last.op = "execute"
    /\ last.kind = "delete"
    /\ last.exc = "ok"
    /\ cur[1].rowcount = 1
    /\ cur[1].lastrowid = 1
    /\ cur[1].description = -1
    /\ db.rows = <<>>

C21_RowcountOfStatement ==
    [][(last'.op = "execute" /\ last'.exc = "ok")
          => \A c \in Cursors : c = last'.cursor =>
             LET k == last'.kind IN
             /\ k = "select" => cur'[c].rowcount = -1
             /\ k = "insert" =>
                   /\ cur'[c].rowcount = 1
                   /\ Len(db'.rows) = Len(db.rows) + 1
             /\ k = "update" =>
                   /\ cur'[c].rowcount = Len(db.rows)
                   /\ \A i \in 1..Len(db'.rows) : db'.rows[i].name = "bar"
             /\ k = "delete" =>
                   /\ cur'[c].rowcount = Len(db.rows)
                   /\ db'.rows = <<>>]_vars

C21_Witness ==
    /\ Executed("update")
    /\ cur[1].rowcount = 2
    /\ Len(db.rows) = 2
    /\ cur[1].description = -1

\* C22: execute and executescript raise DataError exactly when the text is
\* longer than the connection's SQL-length limit; the failure leaves the
\* database, the transaction, the schema and the limits as they were, and
\* with the original limit no text is too long.
C22_SqlLengthLimit ==
    [][(/\ last'.op \in {"execute", "executescript"}
        /\ last'.exc # "ProgrammingError")
          => LET lim == limits[Main]["SQL_LENGTH"]
                 len == IF last'.op = "execute" THEN SqlLen(last'.kind)
                        ELSE ScriptLen(last'.script)
             IN /\ last'.exc = "DataError" <=> len > lim
                /\ last'.exc = "DataError" =>
                      UNCHANGED <<closed, db, committed, in_tx, schema_gen,
                                  limits, last_insert_rowid>>
                /\ (len <= lim /\ last'.kind = "select" /\ db.cols # 0)
                      => last'.exc = "ok"
                /\ lim = DefaultLimit => last'.exc # "DataError"]_vars

C22_Witness ==
    /\ last.op = "executescript"
    /\ last.script = <<"create", "insert">>
    /\ last.exc = "DataError"
    /\ limits[Main]["SQL_LENGTH"] = 3
    /\ in_tx
    /\ Len(db.rows) = 1
    /\ committed.rows = <<>>

\* C23: setlimit returns the limit the category had and leaves it at the
\* value given, so that giving back the returned value restores the limit;
\* getlimit returns the limit; every other category and connection keeps
\* its limits; an unknown category raises ProgrammingError and changes none.
C23_SetlimitReturnsPrevious ==
    [][last'.op \in {"setlimit", "getlimit"}
          => LET cx == last'.cx
                 cat == last'.category
             IN /\ cat \notin Categories
                      => last'.exc = "ProgrammingError" /\ limits' = limits
                /\ (cat \in Categories /\ ~closed)
                      => /\ last'.exc = "ok"
                         /\ last'.value = <<limits[cx][cat]>>
                         /\ limits'[cx][cat] =
                               IF last'.op = "setlimit" THEN last'.size
                               ELSE limits[cx][cat]
                         /\ \A cx2 \in Conns, cat2 \in Categories :
                               <<cx2, cat2>> # <<cx, cat>>
                                  => limits'[cx2][cat2] = limits[cx2][cat2]
                /\ (/\ last.op = "setlimit" /\ last.exc = "ok"
                    /\ last'.op = "setlimit" /\ last'.exc = "ok"
                    /\ last.cx = cx /\ last.category = cat
                    /\ <<last'.size>> = last.value)
                      => <<limits'[cx][cat]>> = last.value]_vars

C23_Witness ==
    /\ last.op = "setlimit"
    /\ last.exc = "ok"
    /\ last.cx = Main
    /\ last.category = "SQL_LENGTH"
    /\ last.value = <<3>>
    /\ limits[Main]["SQL_LENGTH"] = DefaultLimit
    /\ limits[Main]["COLUMN"] = 1
    /\ limits[2]["SQL_LENGTH"] = 1

Binding ==
    /\ last'.op = "execute"
    /\ cur[last'.cursor].status = "open"
    /\ ~closed
    /\ ~WrongThread(last'.thread)
    /\ CreateError(last'.kind) = "ok"

\* C26: execute() raises ProgrammingError for a sequence whose length is
\* not the number of placeholders (too many, too few, none), for a mapping
\* without the key of a named placeholder and for a mapping given to
\* positional placeholders; a mapping with all the keys and more raises
\* nothing.
C26_ParametersMustFit ==
    [][Binding =>
          LET ph == last'.bind.ph
              p == last'.bind.params
              named == \A i \in 1..Len(ph) : ph[i] # "?"
              present == \A i \in 1..Len(ph) : ph[i] \in p.keys
          IN /\ (p.kind = "sequence" /\ p.raises = "none"
                   /\ p.len # Len(ph))
                   => last'.exc = "ProgrammingError"
             /\ (p.kind = "mapping" /\ ~named)
                   => last'.exc = "ProgrammingError"
             /\ (p.kind = "mapping" /\ named /\ ~present /\ ~p.missing)
                   => last'.exc = "ProgrammingError"
             /\ (p.kind = "mapping" /\ named /\ present)
                   => last'.exc = "ok"]_vars

C26_Witness ==
    /\ last.op = "execute"
    /\ last.kind = "insert"
    /\ last.bind = Bind(<<"?">>, SequenceOf(2))
    /\ last.exc = "ProgrammingError"
    /\ cur[1].status = "open"
    /\ ~closed
    /\ db.cols = BaseCols

\* C27: when measuring the parameters raises, execute() raises that very
\* exception, not ProgrammingError.
C27_CallerExceptionPropagates ==
    [][(Binding /\ last'.bind.params.raises # "none")
          => last'.exc = last'.bind.params.raises]_vars

C27_Witness ==
    /\ last.op = "execute"
    /\ last.kind = "select"
    /\ last.bind = Bind(<<"?">>, BadLen)
    /\ last.exc = "ZeroDivisionError"
    /\ cur[1].status = "open"
    /\ ~closed
    /\ Len(db.rows) = 1

\* C28: Cursor.close() succeeds on an open connection however often it is
\* called, leaves the cursor closed without a statement and touches neither
\* the database nor any other cursor; a second close changes nothing; on a
\* closed cursor execute, executemany, executescript, fetchone, fetchmany
\* and fetchall raise ProgrammingError and change nothing; execute and the
\* fetches of an open cursor of the open connection never do.
C28_ClosedCursor ==
    [][\A c \in Cursors : c = last'.cursor =>
          LET uses == {"execute", "executemany", "executescript", "fetchone",
                       "fetchmany", "fetchall"}
          IN /\ (last'.op = "cursor_close" /\ ~closed
                   /\ ~WrongThread(last'.thread))
                   => /\ last'.exc = "ok"
                      /\ cur'[c].status = "closed"
                      /\ cur'[c].stmt = "none"
                      /\ Remaining(c)' = <<>>
                      /\ \A c2 \in Cursors \ {c} :
                            /\ cur'[c2] = cur[c2]
                            /\ Remaining(c2)' = Remaining(c2)
                      /\ UNCHANGED <<closed, db, committed, in_tx,
                                     schema_gen>>
                      /\ cur[c].status = "closed"
                            => UNCHANGED <<cur, cache, owed>>
             /\ (last'.op \in uses /\ cur[c].status = "closed")
                   => /\ last'.exc = "ProgrammingError"
                      /\ UNCHANGED <<closed, db, committed, in_tx,
                                     schema_gen, cache, cur, owed>>
             /\ (last'.op \in uses \ {"executemany"}
                   /\ cur[c].status = "open" /\ ~closed
                   /\ ~WrongThread(last'.thread))
                   => last'.exc # "ProgrammingError"]_vars

C28_Witness ==
    /\ last.op = "fetchall"
    /\ last.cursor = 1
    /\ last.exc = "ProgrammingError"
    /\ cur[1].status = "closed"
    /\ ~closed
    /\ cur[2].status = "open"
    /\ Len(Remaining(2)) = 2


\* C30: when the commit at the end of a with block fails with
\* OperationalError "database is locked" because the other connection still
\* holds its lock, the context manager has rolled the transaction back: the
\* failing connection is in no transaction, holds no lock and has its
\* changes undone; and from then on no call of the other connection fails,
\* so it can end its transaction and start and finish the next one.
C30_RollbackIfCommitFailed ==
    [][/\ (last'.op = "exit" /\ last'.exc = "OperationalError")
            => /\ last'.message = Locked
               /\ in_tx /\ locks[Peer] # "none"
               /\ ~in_tx'
               /\ locks'[Main] = "none"
               /\ db' = committed /\ committed' = committed
       /\ (since_failure # "no" /\ last'.cx = Peer) => last'.exc = "ok"
       /\ (since_failure = "begun" /\ since_failure' = "finished")
            => locks'[Main] = "none" /\ locks'[Peer] = "none"]_vars

C30_Witness ==
    /\ since_failure = "finished"
    /\ last.cx = Peer /\ last.op = "rollback" /\ last.exc = "ok"
    /\ locks[Main] = "none"
    /\ ~in_tx
    /\ committed.rows = <<>>


\* A failure that is an OR ROLLBACK conflict, in a statement or in a script.
OrRollback(call) ==
    /\ call.exc = "IntegrityError"
    /\ \/ call.kind = "insert_or_rollback"
       \/ \E i \in 1..Len(call.script) : call.script[i] = "insert_or_rollback"

\* What every failure but an OR ROLLBACK conflict leaves: the connection
\* open, the rows of the earlier statements in place and every other cursor
\* with its state and its pending rows.
FailureKeeps ==
    /\ ~closed'
    /\ db'.cols = db.cols
    /\ IsPrefix(db.rows, db'.rows)
    /\ \A c \in Cursors \ {last'.cursor} :
          /\ cur'[c] = cur[c]
          /\ owed'[c] = owed[c]
          /\ Remaining(c)' = Remaining(c)

\* C31 as stated: after any operation on an open connection fails, except
\* an OR ROLLBACK conflict, the connection is open, the other cursors are
\* usable and an open transaction is still open with its effects intact.
C31_AnyFailureKeepsTransaction ==
    [][(~closed /\ last'.exc # "ok" /\ ~OrRollback(last'))
          => /\ FailureKeeps
             /\ in_tx => in_tx' /\ committed' = committed]_vars

\* C31, amended: after any operation on an open connection fails, except an
\* OR ROLLBACK conflict, the connection is open, the rows of the earlier
\* statements are in place and the other cursors are as they were; an open
\* transaction is still open unless the operation was executescript, which
\* has committed it before it ran the script.
C31_FailureKeepsConnectionUsable ==
    [][(~closed /\ last'.exc # "ok" /\ ~OrRollback(last'))
          => /\ FailureKeeps
             /\ (in_tx /\ last'.op # "executescript")
                   => in_tx' /\ committed' = committed
             /\ (in_tx /\ last'.op = "executescript"
                       /\ last'.exc \notin {"ProgrammingError", "DataError"})
                   => committed' = db]_vars

C31_Witness ==
    /\ last.op = "execute"
    /\ last.cursor = 1
    /\ last.kind = "insert_or_abort"
    /\ last.exc = "IntegrityError"
    /\ last.pre_tx
    /\ in_tx
    /\ committed.rows = <<>>
    /\ Len(db.rows) = 1
    /\ cur[2].status = "open"
    /\ Remaining(2) # <<>>



\* C32: on a connection object whose __init__ has not run, isolation_level,
\* total_changes, in_transaction, iterdump(), cursor() and close() each raise
\* ProgrammingError "Base Connection.__init__ not called": none succeeds,
\* and none changes anything.
C32_UninitialisedRaises ==
    [][(~initialized /\ last'.cx = Fresh /\ last'.op \in UninitOps)
          => /\ last'.exc = "ProgrammingError"
             /\ last'.message = NotCalled
             /\ ~initialized'
             /\ UNCHANGED <<closed, db, committed, in_tx, cur, cache>>]_vars

C32_Witness ==
    /\ ~initialized
    /\ last.cx = Fresh
    /\ last.op = "close"
    /\ last.exc = "ProgrammingError"
    /\ last.message = NotCalled
    /\ ~closed
    /\ cur[1].status = "open"



\* C34: after Connection.close() the statement cache holds no prepared
\* statement, whatever texts were executed and whichever cursors borrowed
\* them before the close.
C34_ClosedCacheIsEmpty ==
    closed => \A k \in ResultKinds : cache[k] = NoStmt

C34_Witness ==
    /\ closed
    /\ last.op = "close"
    /\ last.exc = "ok"
    /\ cur[1].description = BaseCols
    /\ cur[2].description = 1
    /\ Len(db.rows) = MaxRows
    /\ \A k \in ResultKinds : cache[k] = NoStmt



\* The rows after `before` that n single-row inserts add, in the order of
\* the parameter sets: consecutive rowids.
InOrder(before, after, n) ==
    /\ Len(after) = Len(before) + n
    /\ IsPrefix(before, after)
    /\ \A i \in 1..n : after[Len(before) + i].id = NextId(before) + i - 1

\* C35: executemany binds and steps each parameter set before it takes the
\* next one, in sequence order: an iterator that raises after n sets leaves
\* the effects of those n; and after a successful executemany rowcount is
\* the sum of the rows each iteration affected.
C35_ExecutemanyOneByOne ==
    [][(last'.op = "executemany" /\ IsDml(last'.kind) /\ last'.size >= 0)
          => LET c == last'.cursor
                 k == last'.kind
                 n == last'.size
             IN /\ last'.exc = "ZeroDivisionError"
                      => /\ k = "insert" => InOrder(db.rows, db'.rows, n)
                         /\ (k = "delete" /\ n > 0) => db'.rows = <<>>
                         /\ (k = "update" /\ n > 0)
                               => db'.rows = Renamed(db.rows)
                /\ last'.exc = "ok"
                      => /\ k = "insert"
                               => /\ InOrder(db.rows, db'.rows, n)
                                  /\ cur'[c].rowcount = n
                         /\ k = "update"
                               => cur'[c].rowcount = n * Len(db.rows)
                         /\ k = "delete"
                               => cur'[c].rowcount =
                                      IF n > 0 THEN Len(db.rows) ELSE 0]_vars

C35_Witness ==
    /\ last.op = "executemany"
    /\ last.kind = "insert"
    /\ last.exc = "ZeroDivisionError"
    /\ last.size = MaxRows
    /\ Len(db.rows) = MaxRows
    /\ db.rows[MaxRows].id = MaxRows
    /\ in_tx
    /\ committed.rows = <<>>



\* C36: executescript runs its statements in order and stops at the first
\* that fails: the exception is that statement's, a DatabaseError subclass;
\* the statements before it have taken effect and none after it has run.
C36_ScriptStopsAtFirstFailure ==
    [][(/\ last'.op = "executescript"
        /\ last'.exc \notin {"ok", "ProgrammingError", "DataError"})
          => /\ IsSubclass(last'.exc, "DatabaseError")
             /\ \E i \in 1..Len(last'.script) :
                   LET pre == RunScript(SubSeq(last'.script, 1, i - 1), db,
                                        FALSE, db, schema_gen, 0)
                       k == last'.script[i]
                       s == Step(k, pre.db, pre.tx, pre.com)
                   IN /\ pre.exc = "ok"
                      /\ IF PrepareError(k, pre.db) # "ok"
                         THEN /\ last'.exc = PrepareError(k, pre.db)
                              /\ db' = pre.db
                              /\ in_tx' = pre.tx
                         ELSE /\ last'.exc = s.exc
                              /\ db' = s.db
                              /\ in_tx' = s.tx
             /\ (last'.script = <<"insert", "create", "insert">>
                     /\ db.cols # 0)
                   => /\ last'.exc = "OperationalError"
                      /\ Len(db'.rows) = Len(db.rows) + 1
                      /\ committed' = db']_vars

C36_Witness ==
    /\ last.op = "executescript"
    /\ last.script = <<"insert", "create", "insert">>
    /\ last.exc = "OperationalError"
    /\ last.pre_tx
    /\ isolation_level = ""
    /\ Len(db.rows) = 1
    /\ committed = db
    /\ ~in_tx



\* C37: a call the thread check rejects changes nothing: close(), commit(),
\* rollback(), setlimit() and a cursor's execute() and close() called from
\* a thread that did not create the connection raise ProgrammingError and
\* leave the connection open, in_transaction, the limits, the tables and
\* the cursor, with the rows it has pending, as they were.
C37_ForeignThreadChangesNothing ==
    [][(/\ check_same_thread
        /\ last'.thread # Creator
        /\ last'.op \in {"close", "commit", "rollback", "setlimit",
                         "execute", "cursor_close"})
          => /\ last'.exc = "ProgrammingError"
             /\ UNCHANGED <<closed, in_tx, limits, db, committed, cur, cache,
                            owed, got>>]_vars

C37_Witness ==
    /\ last.op = "setlimit"
    /\ last.thread # Creator
    /\ last.exc = "ProgrammingError"
    /\ last.size = 1
    /\ limits[Main]["SQL_LENGTH"] = DefaultLimit
    /\ ~closed
    /\ in_tx
    /\ cur[1].status = "open"
    /\ Remaining(1) # <<>>



\* C39: total_changes never decreases while the connection is open, through
\* executes, commits, rollbacks and failures alike, and a successful INSERT,
\* UPDATE or DELETE adds the number of rows it affected: one for an insert,
\* the size of the table for an update or a delete of all rows, and for an
\* executemany the sum over its parameter sets.
C39_TotalChangesGrows ==
    [][/\ total_changes' >= total_changes
       /\ last'.op \in {"commit", "rollback", "close"}
             => total_changes' = total_changes
       /\ (last'.op = "execute" /\ last'.exc = "ok")
             => total_changes' = total_changes +
                   (CASE last'.kind = "insert" -> 1
                      [] last'.kind \in {"update", "delete"} -> Len(db.rows)
                      [] OTHER -> 0)
       /\ (last'.op = "executemany" /\ last'.exc = "ok" /\ last'.size >= 0)
             => total_changes' = total_changes +
                   (CASE last'.kind = "insert" -> last'.size
                      [] last'.kind = "update" -> last'.size * Len(db.rows)
                      [] last'.kind = "delete" ->
                            IF last'.size > 0 THEN Len(db.rows) ELSE 0
                      [] OTHER -> 0)]_vars

C39_Witness ==
    /\ last.op = "rollback"
    /\ last.exc = "ok"
    /\ last.pre_tx
    /\ total_changes = MaxChanges
    /\ db.rows = <<>>
    /\ committed.rows = <<>>
    /\ ~closed


====
